---- MODULE Spec2Model ----
(***************************************************************************)
(* A model of psxfudge's texture atlas packer (packer.py, image.py) and    *)
(* of its hash table / bundle builders (builders.py, util.py).             *)
(*                                                                         *)
(* Images are records. The pixel buffer of an image is represented by a    *)
(* short sequence standing for its byte string (field data): two images    *)
(* have the same data exactly when data.tobytes() is the same byte string, *)
(* which is all the packer ever looks at. Python's None is the value None. *)
(***************************************************************************)
EXTENDS Integers, Sequences, FiniteSets, TLC

\* ------------------------------------------------------------------------
\* Bounds of the model
\* ------------------------------------------------------------------------

\* Longest image list handed to buildTexturePages.
MaxImages == 2

\* Most add calls made on a BundleBuilder before generate.
MaxAdds == 3

\* The greatest number of images given to one call of _attemptPacking
MaxAttemptImages == 3

\* ------------------------------------------------------------------------
\* Program constants
\* ------------------------------------------------------------------------

None == -1

TEXPAGE_WIDTH == 64

TEXPAGE_HEIGHT == 256

ATLAS_MIN_WIDTH == 64

ATLAS_MAX_WIDTH == 256

ATLAS_HEIGHT == 256

NumSortOrders == 6

\* ------------------------------------------------------------------------
\* Generic helpers
\* ------------------------------------------------------------------------

Max(a, b) == IF a >= b THEN a ELSE b

Min(a, b) == IF a <= b THEN a ELSE b

\* math.ceil(a / b) for a >= 0, b > 0
CeilDiv(a, b) == (a + b - 1) \div b

\* list.insert(i0, e) with a 0-based index i0 <= Len(s)
InsertAt(s, i0, e) == SubSeq(s, 1, i0) \o <<e>> \o SubSeq(s, i0 + 1, Len(s))

\* list.pop(i0) with a 0-based index: the list that remains
RemoveAt(s, i0) == SubSeq(s, 1, i0) \o SubSeq(s, i0 + 2, Len(s))

\* ------------------------------------------------------------------------
\* image.py: ImageWrapper
\* ------------------------------------------------------------------------

\* ImageWrapper.__init__: the placement attributes start unset, flip False.
\* bpp is derived from the palette: 16 without one, else 4 or 8 by its size
\* (palSize is the number of palette entries, 0 for no palette). The images
\* of the model are made without margins and without a field, so width and
\* height are the inner ones.
NewImage(data, w, h, palSize, pal, padding, flipModes) ==
    [ data |-> data, innerWidth |-> w, innerHeight |-> h,
      bpp |-> IF palSize = 0 THEN 16 ELSE IF palSize <= 32 THEN 4 ELSE 8,
      palette |-> pal, margin |-> << 0, 0 >>, padding |-> padding,
      flipModes |-> flipModes, field |-> None, width |-> w, height |-> h,
      page |-> None, palettePage |-> None,
      x |-> None, y |-> None, px |-> None, py |-> None, flip |-> FALSE ]

\* ImageWrapper.getPackedSize: <<width in atlas columns, height in rows>>
getPackedSize(image, flip) ==
    LET scale == 16 \div image.bpp
    IN  IF flip
        THEN << CeilDiv(image.innerHeight + image.padding * 2, scale),
                image.innerWidth + image.padding * 2 >>
        ELSE << CeilDiv(image.innerWidth + image.padding * 2, scale),
                image.innerHeight + image.padding * 2 >>

RECURSIVE MaxPackedWidth(_, _)
MaxPackedWidth(image, k) ==
    IF k > Len(image.flipModes) THEN 0
    ELSE Max(getPackedSize(image, image.flipModes[k])[1],
             MaxPackedWidth(image, k + 1))

\* The greatest width in pixels, not in atlas columns
getPixelMaxWidth(image) ==
    Max(image.innerWidth, image.innerHeight) + image.padding * 2

\* ImageWrapper.getPackedMaxWidth
getPackedMaxWidth(image) == MaxPackedWidth(image, 1)

\* ImageWrapper.getPathologicalMult: the division is exact, as
\* innerWidth * innerHeight = max * min
getPathologicalMult(image) ==
    (image.innerWidth * image.innerHeight
        * Max(image.innerWidth, image.innerHeight))
    \div Min(image.innerWidth, image.innerHeight)

\* A page width that shrinks with the colour depth
texpageWidthShrinking(bpp) == TEXPAGE_WIDTH * (16 \div bpp)

\* The width of a texture page in atlas columns, for a colour depth
texpageWidthOf(bpp) == TEXPAGE_WIDTH * (bpp \div 4)

\* ImageWrapper.canBePlaced
canBePlaced(image, x, y, flip) ==
    LET size         == getPackedSize(image, flip)
        texpageWidth == texpageWidthOf(image.bpp)
    IN  /\ (x % texpageWidth) + size[1] <= texpageWidth
        /\ (y % TEXPAGE_HEIGHT) + size[2] <= TEXPAGE_HEIGHT

\* Python's hash() of a byte string: a 64-bit value that depends on the
\* hash seed of the process. Equal byte strings hash alike; whether two
\* different byte strings hash alike depends on the seed. Under the seed
\* CollidingSeed the two byte strings of CollidingBuffers do; under the
\* other seeds of the model no two byte strings do.
CollidingSeed == "c"

CollidingBuffers == { << 4 >>, << 8 >> }

pyhash(seed, bytes) ==
    << seed,
       IF seed = CollidingSeed /\ bytes \in CollidingBuffers
       THEN << 4 >> ELSE bytes >>

\* ImageWrapper.getHash: hash(self.data.tobytes())
getHash(image, seed) == pyhash(seed, image.data)

\* word & 0xfbde: clears bits 0, 5 and 10 of a 16-bit palette entry
MaskLSB(word) ==
    word - (word % 2) - 32 * ((word \div 32) % 2)
         - 1024 * ((word \div 1024) % 2)

\* The palette left in the image by ImageWrapper.getPaletteHash: data is a
\* view of self.palette, and "data &= 0xfbde" writes through it.
paletteAfterHash(image, preserveLSB) ==
    IF preserveLSB THEN image.palette
    ELSE [ k \in DOMAIN image.palette |-> MaskLSB(image.palette[k]) ]

\* ImageWrapper.getPaletteHash: the value returned
getPaletteHash(image, preserveLSB, seed) ==
    pyhash(seed, paletteAfterHash(image, preserveLSB))

\* ------------------------------------------------------------------------
\* sorted(): a stable sort of a list of image indices by integer keys
\* ------------------------------------------------------------------------

\* Where sorted() puts an element of key k among the already sorted res:
\* after every element that does not come after it.
RECURSIVE SortPos(_, _, _, _, _)
SortPos(res, keys, k, reverse, n) ==
    IF n > Len(res) THEN Len(res)
    ELSE IF (IF reverse THEN keys[res[n]] >= k ELSE keys[res[n]] <= k)
         THEN SortPos(res, keys, k, reverse, n + 1)
         ELSE n - 1

RECURSIVE SortInto(_, _, _, _, _)
SortInto(res, idxs, keys, reverse, n) ==
    IF n > Len(idxs) THEN res
    ELSE SortInto(
            InsertAt(res, SortPos(res, keys, keys[idxs[n]], reverse, 1),
                     idxs[n]),
            idxs, keys, reverse, n + 1)

\* sorted(idxs, key = keys[.], reverse = reverse)
Sorted(idxs, keys, reverse) == SortInto(<< >>, idxs, keys, reverse, 1)

\* ------------------------------------------------------------------------
\* packer.py: packPalettes
\* ------------------------------------------------------------------------

\* One pass of the loop body of packPalettes, for the n-th image of the
\* sorted list. st = [imgs, hashes, packed, px, py, stop, n: passes done]
packPalettesStep(st0, i, atlasWidth, page, preserveLSB, seed) ==
    LET st    == [ st0 EXCEPT !.n = st0.n + 1 ]
        image == st.imgs[i]
        width == 2 ^ image.bpp
        hash  == getPaletteHash(image, preserveLSB, seed)
        \* the image after getPaletteHash has run on it
        hashed == [ image EXCEPT
                        !.palette = paletteAfterHash(image, preserveLSB) ]
        px1   == st.px + width
        py1   == st.py - (px1 \div atlasWidth)
    IN  IF st.stop \/ width > atlasWidth THEN st
        ELSE IF hash \in DOMAIN st.hashes
        THEN LET other == st.imgs[st.hashes[hash]]
             IN  [ st EXCEPT
                     !.imgs[i] = [ hashed EXCEPT !.px = other.px,
                                                 !.py = other.py,
                                                 !.palettePage = page ],
                     !.packed = st.packed + 1 ]
        ELSE [ imgs   |-> [ st.imgs EXCEPT ![i] =
                              [ hashed EXCEPT !.px = st.px \div 16,
                                              !.py = st.py,
                                              !.palettePage = page ] ],
               hashes |-> (hash :> i) @@ st.hashes,
               packed |-> st.packed + 1,
               px     |-> px1 % atlasWidth,
               py     |-> py1,
               stop   |-> py1 < 0,
               n      |-> st.n ]

RECURSIVE packPalettesLoop(_, _, _, _, _, _)
packPalettesLoop(st, order, atlasWidth, page, preserveLSB, seed) ==
    IF st.n >= Len(order) THEN st
    ELSE packPalettesLoop(
            packPalettesStep(st, order[st.n + 1], atlasWidth, page,
                             preserveLSB, seed),
            order, atlasWidth, page, preserveLSB, seed)

\* A free height that counts the row of the cursor when it is in use
freeHeightInUse(px, py) == py + (IF px = 0 THEN 0 ELSE 1)

\* The value packPalettes returns as the free height, from the cursor
freeHeightOf(px, py) == py + (IF px # 0 THEN 0 ELSE 1)

\* packPalettes(images, atlasWidth, atlasHeight, page, preserveLSB):
\* [imgs: the images afterwards, freeHeight, packed, px, py: the cursor]
\* What packPalettes returns, from the state st its loop ends in
packPalettesResult(st) ==
    [ imgs |-> st.imgs, freeHeight |-> freeHeightOf(st.px, st.py),
      packed |-> st.packed, px |-> st.px, py |-> st.py ]

packPalettes(imgs, idxs, atlasWidth, atlasHeight, page, preserveLSB, seed) ==
    packPalettesResult(
        packPalettesLoop(
            [ imgs |-> imgs, hashes |-> << >>, packed |-> 0,
              px |-> 0, py |-> atlasHeight - 1, stop |-> FALSE, n |-> 0 ],
            Sorted(idxs, [ i \in DOMAIN imgs |-> imgs[i].bpp ], TRUE),
            atlasWidth, page, preserveLSB, seed))

\* ------------------------------------------------------------------------
\* packer.py: _attemptPacking
\* ------------------------------------------------------------------------
\* An empty space is a tuple <<x, y, maxWidth, maxHeight>>.

\* The corners of the space from the bottom-right one back
cornerOffsetsReversed(marginX, marginY) ==
    << << marginX, marginY >>, << 0, marginY >>, << marginX, 0 >>,
       << 0, 0 >> >>

\* The four anchors tried in a space, in order: the corners of the space
cornerOffsets(marginX, marginY) ==
    << << 0, 0 >>, << marginX, 0 >>, << 0, marginY >>,
       << marginX, marginY >> >>

RECURSIVE firstCorner(_, _, _, _, _)
\* The first offset at which the image can be placed (0 for none): the
\* position in offs of the anchor the inner for loop breaks at.
firstCorner(image, space, flip, offs, k) ==
    IF k > Len(offs) THEN 0
    ELSE IF canBePlaced(image, space[1] + offs[k][1], space[2] + offs[k][2],
                        flip)
         THEN k
         ELSE firstCorner(image, space, flip, offs, k + 1)

\* The scan of all empty spaces for one flip of an image.
\* best = [index (0-based, None if no space yet), offset, margin]
\* The best space so far after the space of 0-based index index0 was
\* looked at: size is the packed size of the image, corner what firstCorner
\* found in the space.
betterSpace(best, index0, space, size, offs, corner) ==
    LET margin == (space[3] * space[4]) - (size[1] * size[2])
    IN  IF size[1] > space[3] \/ size[2] > space[4] THEN best
        ELSE IF corner = 0 THEN best
        ELSE IF best.index = None \/ margin < best.margin
        THEN [ index |-> index0, offset |-> offs[corner], margin |-> margin ]
        ELSE best

\* One empty space is looked at, for one flip of an image
checkSpace(image, flip, space, index0, size, best) ==
    betterSpace(best, index0, space, size,
                cornerOffsets(space[3] - size[1], space[4] - size[2]),
                firstCorner(image, space, flip,
                            cornerOffsets(space[3] - size[1],
                                          space[4] - size[2]), 1))

RECURSIVE findSpace(_, _, _, _, _)
findSpace(image, flip, spaces, n, best) ==
    IF n > Len(spaces) THEN best
    ELSE findSpace(image, flip, spaces, n + 1,
                   checkSpace(image, flip, spaces[n], n - 1,
                              getPackedSize(image, flip), best))

NoSpace == [ index |-> None, offset |-> << 0, 0 >>, margin |-> 0 ]

\* The margins left over as if every image were anchored at the top-left
\* corner of its space
splitSpaceTopLeft(spaces, best, width, height, altSplit) ==
    LET space     == spaces[best.index + 1]
        x         == space[1]
        y         == space[2]
        maxWidth  == space[3]
        maxHeight == space[4]
        offsetX   == best.offset[1]
        offsetY   == best.offset[2]
        marginX   == maxWidth - width
        marginY   == maxHeight - height
        padLeft   == width
        padTop    == height
        popped    == RemoveAt(spaces, best.index)
    IN  IF altSplit # (maxWidth * marginY < maxHeight * marginX)
        THEN \* split along the bottom side (horizontally)
          LET s1 == IF marginY # 0
                    THEN InsertAt(popped, best.index,
                            << x, y + padTop, maxWidth, marginY >>)
                    ELSE popped
          IN  IF marginX # 0
              THEN InsertAt(s1, best.index,
                      << x + padLeft, y + offsetY, marginX, height >>)
              ELSE s1
        ELSE \* split along the right side (vertically)
          LET s1 == IF marginX # 0
                    THEN InsertAt(popped, best.index,
                            << x + padLeft, y, marginX, maxHeight >>)
                    ELSE popped
          IN  IF marginY # 0
              THEN InsertAt(s1, best.index,
                      << x + offsetX, y + padTop, width, marginY >>)
              ELSE s1

\* The empty spaces after the image took the space of index best.index:
\* spaces.pop(lowestIndex), then the inserts of the margins left over.
splitSpace(spaces, best, width, height, altSplit) ==
    LET space     == spaces[best.index + 1]
        x         == space[1]
        y         == space[2]
        maxWidth  == space[3]
        maxHeight == space[4]
        offsetX   == best.offset[1]
        offsetY   == best.offset[2]
        marginX   == maxWidth - width
        marginY   == maxHeight - height
        padLeft   == IF offsetX # 0 THEN 0 ELSE width
        padTop    == IF offsetY # 0 THEN 0 ELSE height
        popped    == RemoveAt(spaces, best.index)
    IN  IF altSplit # (maxWidth * marginY < maxHeight * marginX)
        THEN \* split along the bottom side (horizontally)
          LET s1 == IF marginY # 0
                    THEN InsertAt(popped, best.index,
                            << x, y + padTop, maxWidth, marginY >>)
                    ELSE popped
          IN  IF marginX # 0
              THEN InsertAt(s1, best.index,
                      << x + padLeft, y + offsetY, marginX, height >>)
              ELSE s1
        ELSE \* split along the right side (vertically)
          LET s1 == IF marginX # 0
                    THEN InsertAt(popped, best.index,
                            << x + padLeft, y, marginX, maxHeight >>)
                    ELSE popped
          IN  IF marginY # 0
              THEN InsertAt(s1, best.index,
                      << x + offsetX, y + padTop, width, marginY >>)
              ELSE s1

\* st = [imgs, spaces, area, packed, hashes, n: images done]
\* The image of index i takes the space best (found for flip): the end of
\* the body of the loop over the flip modes.
placeImage(st, i, flip, best, size, page, altSplit, hash) ==
    LET space == st.spaces[best.index + 1]
    IN  [ imgs   |-> [ st.imgs EXCEPT ![i] =
                        [ st.imgs[i] EXCEPT
                            !.x    = space[1] + best.offset[1],
                            !.y    = space[2] + best.offset[2],
                            !.page = page,
                            !.flip = flip ] ],
          spaces |-> splitSpace(st.spaces, best, size[1], size[2], altSplit),
          area   |-> st.area + size[1] * size[2],
          packed |-> st.packed + 1,
          hashes |-> (hash :> i) @@ st.hashes,
          n      |-> st.n ]

\* The loop over image.flipModes for the image of index i, from the k-th
\* flip mode on: best is what the scan of the spaces found for that flip.
RECURSIVE tryFlips(_, _, _, _, _, _, _)
tryFlips(st, i, k, best, page, altSplit, hash) ==
    IF best.index # None
    THEN placeImage(st, i, st.imgs[i].flipModes[k], best,
                    getPackedSize(st.imgs[i], st.imgs[i].flipModes[k]),
                    page, altSplit, hash)
    ELSE IF k >= Len(st.imgs[i].flipModes) THEN st
    ELSE tryFlips(st, i, k + 1,
                  findSpace(st.imgs[i], st.imgs[i].flipModes[k + 1],
                            st.spaces, 1, NoSpace),
                  page, altSplit, hash)

\* A copy of a placement that leaves the orientation of the image alone
copyPlacementKeepFlip(image, other) ==
    [ image EXCEPT !.x = other.x, !.y = other.y, !.page = other.page ]

\* The image takes the placement of the image other, whose hash it has
copyPlacement(image, other) ==
    [ image EXCEPT !.x = other.x, !.y = other.y, !.page = other.page,
                   !.flip = other.flip ]

\* The body of the loop over the images, for the image of index i
attemptPackingStep(st0, i, page, altSplit, seed) ==
    LET st    == [ st0 EXCEPT !.n = st0.n + 1 ]
        image == st.imgs[i]
        hash  == getHash(image, seed)
    IN  IF hash \in DOMAIN st.hashes
        THEN [ st EXCEPT
                 !.imgs[i] = copyPlacement(image, st.imgs[st.hashes[hash]]),
                 !.packed = st.packed + 1 ]
        ELSE tryFlips(
                [ st EXCEPT !.imgs[i] = [ image EXCEPT !.x = None,
                                                       !.y = None,
                                                       !.page = None ] ],
                i, 0, NoSpace, page, altSplit, hash)

RECURSIVE attemptPackingLoop(_, _, _, _, _)
attemptPackingLoop(st, order, page, altSplit, seed) ==
    IF st.n >= Len(order) THEN st
    ELSE attemptPackingLoop(
            attemptPackingStep(st, order[st.n + 1], page, altSplit, seed),
            order, page, altSplit, seed)

\* _attemptPacking(images, atlasWidth, atlasHeight, page, altSplit), where
\* images is the list of the imgs of indices order:
\* [imgs: the images afterwards, spaces, area, packed, hashes]
attemptPacking(imgs, order, atlasWidth, atlasHeight, page, altSplit, seed) ==
    attemptPackingLoop(
        [ imgs |-> imgs, spaces |-> << << 0, 0, atlasWidth, atlasHeight >> >>,
          area |-> 0, packed |-> 0, hashes |-> << >>, n |-> 0 ],
        order, page, altSplit, seed)

\* ------------------------------------------------------------------------
\* packer.py: packImages
\* ------------------------------------------------------------------------

\* SORT_ORDERS[orderIndex](image), orderIndex in 0..5
sortKey(orderIndex, image) ==
    CASE orderIndex = 0 -> image.innerWidth * image.innerHeight
      [] orderIndex = 1 -> (image.innerWidth + image.innerHeight) * 2
      [] orderIndex = 2 -> Max(image.innerWidth, image.innerHeight)
      [] orderIndex = 3 -> image.innerWidth
      [] orderIndex = 4 -> image.innerHeight
      [] OTHER          -> getPathologicalMult(image)

\* splitModes = ( False, True ) if trySplits else ( False, )
splitModesOf(trySplits) == IF trySplits THEN << FALSE, TRUE >> ELSE << FALSE >>

\* candidates of one step of the shrink search
candidatesOf(newWidth, newHeight, step) ==
    << << newWidth - step, newHeight - step >>,
       << newWidth - step, newHeight >>,
       << newWidth, newHeight - step >>,
       << newWidth, newHeight >> >>

\* The two nested for loops that fill packResults: attempt number n
\* (0-based, the length of packResults so far) uses split mode n \div 4
\* and candidate n % 4. Every attempt
\* works on the image objects the previous one left behind.
\* acc = [imgs, results: the list of <<area, packed>>]
\* packResults.append(_attemptPacking(...)): r is what the attempt left
appendResult(acc, r) ==
    [ imgs |-> r.imgs,
      results |-> Append(acc.results, << r.area, r.packed >>) ]

RECURSIVE runAttempts(_, _, _, _, _, _, _)
runAttempts(acc, order, cands, modes, total, page, seed) ==
    IF Len(acc.results) >= total THEN acc
    ELSE runAttempts(
            appendResult(acc,
                attemptPacking(acc.imgs, order,
                               cands[(Len(acc.results) % 4) + 1][1],
                               cands[(Len(acc.results) % 4) + 1][2], page,
                               modes[(Len(acc.results) \div 4) + 1], seed)),
            order, cands, modes, total, page, seed)

\* tuple comparison of two (area, packed) results: a > b
resultGreater(a, b) == a[1] > b[1] \/ (a[1] = b[1] /\ a[2] > b[2])

\* packResults.index(max(packResults)): 0-based index of the first maximum
RECURSIVE indexOfMax(_, _, _)
indexOfMax(results, n, best) ==
    IF n > Len(results) THEN best - 1
    ELSE indexOfMax(results, n + 1,
            IF resultGreater(results[n], results[best]) THEN n ELSE best)

\* One pass of "while step >= discardStep" in packImages.
\* w = [imgs, newWidth, newHeight, step, packed, area, bestIndex, stop]

\* The end of one pass of the while loop, after the attempts: best is
\* packResults.index(max(packResults)), acc what the attempts left.
searchStepEnd(w, acc, best, numImages, atlasWidth, atlasHeight) ==
    LET cands      == candidatesOf(w.newWidth, w.newHeight, w.step)
        bestResult == acc.results[best + 1]
        bestIndex  == best % 4
        w1         == [ w EXCEPT !.imgs = acc.imgs,
                                 !.area = bestResult[1],
                                 !.packed = bestResult[2],
                                 !.bestIndex = bestIndex ]
    IN  IF bestIndex = 3 \/ bestIndex = 7
        THEN IF bestResult[2] = numImages
             THEN [ w1 EXCEPT !.stop = TRUE ]
             ELSE IF (w.newWidth + w.step) > atlasWidth
                     \/ (w.newHeight + w.step) > atlasHeight
             THEN [ w1 EXCEPT !.stop = TRUE ]
             ELSE [ w1 EXCEPT !.newWidth = w.newWidth + w.step,
                              !.newHeight = w.newHeight + w.step,
                              !.step = w.step \div 2 ]
        ELSE [ w1 EXCEPT !.newWidth = cands[(bestIndex % 4) + 1][1],
                         !.newHeight = cands[(bestIndex % 4) + 1][2],
                         !.step = w.step \div 2 ]

\* The attempts of one pass are done: the best of them is looked up
searchStepBest(w, acc, numImages, atlasWidth, atlasHeight) ==
    searchStepEnd(w, acc, indexOfMax(acc.results, 1, 1), numImages,
                  atlasWidth, atlasHeight)

searchStep(w, order, numImages, atlasWidth, atlasHeight, page, trySplits,
           seed) ==
    searchStepBest(
        w,
        runAttempts([ imgs |-> w.imgs, results |-> << >> ], order,
                    candidatesOf(w.newWidth, w.newHeight, w.step),
                    splitModesOf(trySplits), 4 * Len(splitModesOf(trySplits)),
                    page, seed),
        numImages, atlasWidth, atlasHeight)

RECURSIVE searchLoop(_, _, _, _, _, _, _, _, _)
searchLoop(w, order, numImages, atlasWidth, atlasHeight, page, discardStep,
           trySplits, seed) ==
    IF w.stop \/ w.step < discardStep THEN w
    ELSE searchLoop(
            searchStep(w, order, numImages, atlasWidth, atlasHeight, page,
                       trySplits, seed),
            order, numImages, atlasWidth, atlasHeight, page, discardStep,
            trySplits, seed)

\* The image list after sorted(images, key = SORT_ORDERS[orderIndex],
\* reverse = reverse), as a list of indices
sortedImages(imgs, idxs, orderIndex, reverse) ==
    Sorted(idxs, [ i \in DOMAIN imgs |-> sortKey(orderIndex, imgs[i]) ],
           reverse)

\* The locals of packImages before the first sort order. area and bestIndex
\* are not bound yet (None); packed is set to None by every sort order.
packImagesStart ==
    [ area |-> None, packed |-> None, bestIndex |-> None,
      newWidth |-> 0, newHeight |-> 0,
      highestArgs |-> None, highestArea |-> 0 ]

\* The body of "for orderIndex, order in enumerate(SORT_ORDERS)" for one
\* sort order: the sort, the shrink search and the update of highestArgs.
\* loc are the locals of packImages, and the result is
\* [imgs, loc, break: the loop over the sort orders is left,
\*  raised: area is read before it was ever bound (NameError)]
\* searchOrderEnd is the part after the while loop, which ended in w.
searchOrderEnd(w, loc, order, idxs, page) ==
    LET loc1  == [ loc EXCEPT !.area = w.area, !.packed = w.packed,
                              !.bestIndex = w.bestIndex,
                              !.newWidth = w.newWidth,
                              !.newHeight = w.newHeight ]
    IN  IF w.area = None
        THEN [ imgs |-> w.imgs, loc |-> loc1, break |-> FALSE,
               raised |-> TRUE ]
        ELSE IF w.area > loc.highestArea
        THEN [ imgs |-> w.imgs,
               loc |-> [ loc1 EXCEPT
                           !.highestArgs =
                               [ order |-> order, width |-> w.newWidth,
                                 height |-> w.newHeight, page |-> page,
                                 altSplit |-> (w.bestIndex > 3) ],
                           !.highestArea = w.area ],
               break |-> (w.packed = Len(idxs)),
               raised |-> FALSE ]
        ELSE [ imgs |-> w.imgs, loc |-> loc1, break |-> FALSE,
               raised |-> FALSE ]

\* The shrink search of one sort order, for the sorted list order
searchSorted(imgs, loc, idxs, order, atlasWidth, atlasHeight, page,
             discardStep, trySplits, seed) ==
    searchOrderEnd(
        searchLoop(
            [ imgs |-> imgs, newWidth |-> atlasWidth,
              newHeight |-> atlasHeight,
              step |-> Min(atlasWidth, atlasHeight) \div 2,
              packed |-> None, area |-> loc.area,
              bestIndex |-> loc.bestIndex, stop |-> FALSE ],
            order, Len(idxs), atlasWidth, atlasHeight, page, discardStep,
            trySplits, seed),
        loc, order, idxs, page)

searchOrder(imgs, loc, idxs, reverse, orderIndex, atlasWidth, atlasHeight,
            page, discardStep, trySplits, seed) ==
    searchSorted(imgs, loc, idxs,
                 sortedImages(imgs, idxs, orderIndex, reverse),
                 atlasWidth, atlasHeight, page, discardStep, trySplits, seed)

\* The end of packImages: (0, 0) without a best attempt, else the re-play
\* _attemptPacking(*highestArgs).
\* [imgs, area, packed, spaces: the empty spaces the re-play leaves]
replayResult(r) ==
    [ imgs |-> r.imgs, area |-> r.area, packed |-> r.packed,
      spaces |-> r.spaces ]

replayBest(imgs, loc, seed) ==
    IF loc.highestArea = 0
    THEN [ imgs |-> imgs, area |-> 0, packed |-> 0, spaces |-> << >> ]
    ELSE replayResult(
            attemptPacking(imgs, loc.highestArgs.order,
                           loc.highestArgs.width, loc.highestArgs.height,
                           loc.highestArgs.page, loc.highestArgs.altSplit,
                           seed))

\* ------------------------------------------------------------------------
\* packer.py: buildAtlases, the choice of the atlas width
\* ------------------------------------------------------------------------

RECURSIVE has8bpp(_, _, _)
has8bpp(imgs, pals, n) ==
    IF n > Len(pals) THEN FALSE
    ELSE imgs[pals[n]].bpp = 8 \/ has8bpp(imgs, pals, n + 1)

\* while atlasWidth < image.getPackedMaxWidth(): the break leaves this
\* loop only, at the moment the width is exactly ATLAS_MAX_WIDTH
RECURSIVE widenFor(_, _)
widenFor(atlasWidth, maxWidth) ==
    IF atlasWidth < maxWidth
    THEN IF atlasWidth + ATLAS_MIN_WIDTH = ATLAS_MAX_WIDTH
         THEN atlasWidth + ATLAS_MIN_WIDTH
         ELSE widenFor(atlasWidth + ATLAS_MIN_WIDTH, maxWidth)
    ELSE atlasWidth

RECURSIVE widenForAll(_, _, _, _)
widenForAll(atlasWidth, imgs, idxs, n) ==
    IF n > Len(idxs) THEN atlasWidth
    ELSE widenForAll(widenFor(atlasWidth, getPackedMaxWidth(imgs[idxs[n]])),
                     imgs, idxs, n + 1)

\* An atlas width picked for the images alone
chooseWidthByImages(imgs, idxs, pals) ==
    widenForAll(ATLAS_MIN_WIDTH, imgs, idxs, 1)

\* The atlas width buildAtlases picks for the images and palettes left
chooseAtlasWidth(imgs, idxs, pals) ==
    IF has8bpp(imgs, pals, 1) THEN ATLAS_MAX_WIDTH
    ELSE widenForAll(ATLAS_MIN_WIDTH, imgs, idxs, 1)

\* Every image and palette is kept for the next atlas, packed or not
keepAll(imgs, idxs, n, palette) == idxs

\* The indices of idxs, in order, whose image satisfies / fails Test
RECURSIVE unpackedOf(_, _, _, _)
unpackedOf(imgs, idxs, n, palette) ==
    IF n > Len(idxs) THEN << >>
    ELSE LET image == imgs[idxs[n]]
             unset == IF palette THEN image.palettePage = None
                      ELSE image.page = None
         IN  (IF unset THEN << idxs[n] >> ELSE << >>)
             \o unpackedOf(imgs, idxs, n + 1, palette)

RECURSIVE packedOf(_, _, _, _)
packedOf(imgs, idxs, n, palette) ==
    IF n > Len(idxs) THEN << >>
    ELSE LET image == imgs[idxs[n]]
             unset == IF palette THEN image.palettePage = None
                      ELSE image.page = None
         IN  (IF unset THEN << >> ELSE << idxs[n] >>)
             \o packedOf(imgs, idxs, n + 1, palette)

\* ------------------------------------------------------------------------
\* packer.py: buildTexturePages, the buckets
\* ------------------------------------------------------------------------

\* numTypes = ATLAS_MAX_WIDTH // ATLAS_MIN_WIDTH
numTypes == ATLAS_MAX_WIDTH \div ATLAS_MIN_WIDTH

\* A bucket index that puts the narrowest atlases first
bucketIndexNarrowFirst(atlasWidth) ==
    (((atlasWidth * 2) \div (ATLAS_MIN_WIDTH * 2)) - 1) % numTypes

\* bucketIndex = numTypes - width // (ATLAS_MIN_WIDTH * 2), where width is
\* atlas.shape[1], twice the atlas width in columns
bucketIndexOf(atlasWidth) ==
    numTypes - ((atlasWidth * 2) \div (ATLAS_MIN_WIDTH * 2))

\* Python's list[i]: a negative index counts from the end (1-based result)
pyIndex(i, length) == IF i < 0 THEN i + length + 1 ELSE i + 1

\* The texture pages range(0, width, ATLAS_MIN_WIDTH * 2) cuts an atlas
\* into: a page is [atlas: the index of its atlas, slice: its number in it]
pagesOfAtlas(atlasIndex, atlasWidth) ==
    [ k \in 1..CeilDiv(atlasWidth * 2, ATLAS_MIN_WIDTH * 2) |->
        [ atlas |-> atlasIndex, slice |-> k - 1 ] ]

\* tuple(accumulate(map(len, buckets), initial = 0))
RECURSIVE accumulateLen(_, _, _)
accumulateLen(bkts, n, sum) ==
    IF n > Len(bkts) THEN << sum >>
    ELSE << sum >> \o accumulateLen(bkts, n + 1, sum + Len(bkts[n]))

\* The loop of buildTexturePages that fixes page and palettePage
remapPages(imgs, indexMap, bucketOffsets) ==
    [ i \in DOMAIN imgs |->
        LET image == imgs[i]
            m     == indexMap[image.page]
            p1    == [ image EXCEPT !.page =
                         bucketOffsets[pyIndex(m[1], Len(bucketOffsets))]
                         + m[2] ]
        IN  IF image.palettePage # None
            THEN LET pm == indexMap[image.palettePage]
                 IN  [ p1 EXCEPT !.palettePage =
                         bucketOffsets[pyIndex(pm[1], Len(bucketOffsets))]
                         + pm[2] ]
            ELSE p1 ]

\* ------------------------------------------------------------------------
\* packer.py: buildTexturePages / buildAtlases as a machine
\* ------------------------------------------------------------------------
\* The state of a call of buildTexturePages is a record s:
\*   images      the ImageWrapper objects of the list given, in order
\*   opts        discardStep, trySplits, preservePalettes and the hash seed
\*   pc          where buildTexturePages / buildAtlases stand
\*   rem         _images: the indices of the images still to pack
\*   pals        _palettes: the indices of the palettes still to pack
\*   index       index: the number of the atlas being built
\*   atlasWidth  the width picked for the current atlas
\*   palettes    what packPalettes returned for the current atlas
\*   loc         the locals of packImages
\*   sortPos     << reverse, orderIndex >> of the next sort order
\*   packedRes   what packImages returned for the current atlas
\*   atlases     the atlases yielded so far
\*   buckets     buildTexturePages: the four buckets of pages
\*   indexMap    buildTexturePages: atlas index -> bucket, page offset
\*   error       the exception raised, "" for none

NoPalettes == [ freeHeight |-> 0, packed |-> 0, px |-> 0, py |-> 0 ]

NoResult == [ area |-> 0, packed |-> 0, spaces |-> << >>, order |-> << >> ]

\* buildTexturePages(images, discardStep, trySplits, preservePalettes) is
\* called: buildAtlases starts with every image and every palette to pack.
packerStart(imgs, options) ==
    [ images     |-> imgs,
      opts       |-> options,
      pc         |-> "loop",
      rem        |-> [ i \in DOMAIN imgs |-> i ],
      pals       |-> SelectSeq([ i \in DOMAIN imgs |-> i ],
                               LAMBDA i : imgs[i].bpp # 16),
      index      |-> 0,
      atlasWidth |-> 0,
      palettes   |-> NoPalettes,
      loc        |-> packImagesStart,
      sortPos    |-> << TRUE, 0 >>,
      packedRes  |-> NoResult,
      atlases    |-> << >>,
      buckets    |-> [ b \in 1..numTypes |-> << >> ],
      indexMap   |-> << >>,
      error      |-> "" ]

\* buildAtlases, "while _images or _palettes" entered: the atlas width is
\* picked, packPalettes runs (p is what it returns) and packImages starts.
beginWithPalettes(s, width, p) ==
    [ s EXCEPT !.atlasWidth = width,
               !.images     = p.imgs,
               !.palettes   = [ freeHeight |-> p.freeHeight,
                                packed |-> p.packed,
                                px |-> p.px, py |-> p.py ],
               !.loc        = packImagesStart,
               !.sortPos    = << TRUE, 0 >>,
               !.pc         = "order" ]

beginWithWidth(s, width) ==
    beginWithPalettes(s, width,
        packPalettes(s.images, s.pals, width, ATLAS_HEIGHT, s.index,
                     s.opts.preservePalettes, s.opts.seed))

beginAtlas(s) == beginWithWidth(s, chooseAtlasWidth(s.images, s.rem, s.pals))

\* packImages: one sort order was tried (r is what searchOrder gives), for
\* reverse in ( True, False ) and every order of SORT_ORDERS; a break
\* leaves the loop over the orders only.
afterOrder(s, r) ==
    LET last == r.break \/ s.sortPos[2] + 1 = NumSortOrders
    IN  IF r.raised
        THEN [ s EXCEPT !.images = r.imgs, !.loc = r.loc,
                        !.pc = "failed", !.error = "NameError" ]
        ELSE IF ~last
        THEN [ s EXCEPT !.images = r.imgs, !.loc = r.loc,
                        !.sortPos = << s.sortPos[1], s.sortPos[2] + 1 >> ]
        ELSE IF s.sortPos[1]
        THEN [ s EXCEPT !.images = r.imgs, !.loc = r.loc,
                        !.sortPos = << FALSE, 0 >> ]
        ELSE [ s EXCEPT !.images = r.imgs, !.loc = r.loc,
                        !.pc = "replay" ]

searchOrderStep(s) ==
    afterOrder(s,
        searchOrder(s.images, s.loc, s.rem, s.sortPos[1], s.sortPos[2],
                    s.atlasWidth, s.palettes.freeHeight, s.index,
                    s.opts.discardStep, s.opts.trySplits, s.opts.seed))

\* packImages returns: ( 0, 0 ) or the re-play of the best attempt
afterReplay(s, r) ==
    [ s EXCEPT !.images    = r.imgs,
               !.packedRes = [ area |-> r.area, packed |-> r.packed,
                               spaces |-> r.spaces,
                               order |-> IF s.loc.highestArea = 0 THEN << >>
                                         ELSE s.loc.highestArgs.order ],
               !.pc        = "collect" ]

replayStep(s) == afterReplay(s, replayBest(s.images, s.loc, s.opts.seed))

\* buildAtlases: neither a palette nor an image was packed
packingFailed(s) ==
    [ s EXCEPT !.pc = "failed", !.error = "packing failed" ]

\* buildAtlases: the packed images and palettes are blitted onto a new
\* atlas, the others are kept for the next one, and the atlas is yielded.
\* (The packing ratio logged before the yield divides by the free height.)
yieldAtlas(s) ==
    LET s1 == [ s EXCEPT !.rem   = unpackedOf(s.images, s.rem, 1, FALSE),
                         !.pals  = unpackedOf(s.images, s.pals, 1, TRUE),
                         !.index = s.index + 1 ]
    IN  IF s.atlasWidth * s.palettes.freeHeight = 0
        THEN [ s1 EXCEPT !.pc = "failed", !.error = "ZeroDivisionError" ]
        ELSE [ s1 EXCEPT
                 !.pc = "bucket",
                 !.atlases = Append(s.atlases,
                     [ width |-> s.atlasWidth, height |-> ATLAS_HEIGHT,
                       freeHeight |-> s.palettes.freeHeight,
                       blits |-> packedOf(s.images, s.rem, 1, FALSE),
                       paletteBlits |-> packedOf(s.images, s.pals, 1,
                                                 TRUE) ]) ]

\* buildTexturePages: the body of the loop over the atlases buildAtlases
\* yields. The atlas goes into its bucket, cut into texture pages.
bucketAtlas(s) ==
    LET atlasIndex  == Len(s.atlases) - 1
        width       == s.atlases[Len(s.atlases)].width
        bucketIndex == bucketIndexOf(width)
        b           == pyIndex(bucketIndex, numTypes)
    IN  [ s EXCEPT
            !.indexMap = Append(s.indexMap,
                                << bucketIndex, Len(s.buckets[b]) >>),
            !.buckets  = [ s.buckets EXCEPT ![b] =
                             @ \o pagesOfAtlas(atlasIndex, width) ],
            !.pc       = "loop" ]

\* buildTexturePages, after the last atlas: page and palettePage of every
\* image become absolute texture page numbers.
remapStep(s) ==
    [ s EXCEPT
        !.images = remapPages(
                      s.images,
                      [ k \in 0..(Len(s.indexMap) - 1) |-> s.indexMap[k + 1] ],
                      accumulateLen(s.buckets, 1, 0)),
        !.pc     = "done" ]

\* The next step of buildTexturePages
packerStep(s) ==
    CASE s.pc = "loop" ->
            IF Len(s.rem) > 0 \/ Len(s.pals) > 0 THEN beginAtlas(s)
            ELSE remapStep(s)
      [] s.pc = "order"   -> searchOrderStep(s)
      [] s.pc = "replay"  -> replayStep(s)
      [] s.pc = "collect" ->
            IF s.palettes.packed = 0 /\ s.packedRes.packed = 0
            THEN packingFailed(s)
            ELSE yieldAtlas(s)
      [] s.pc = "bucket"  -> bucketAtlas(s)
      [] OTHER            -> s

\* A whole call of buildTexturePages, from the state s to its return
\* (pc = "done") or to the exception it raises (pc = "failed")
RECURSIVE runPacker(_)
runPacker(s) ==
    IF s.pc \in { "done", "failed" } THEN s
    ELSE runPacker(packerStep(s))

buildTexturePages(imgs, options) == runPacker(packerStart(imgs, options))

\* ------------------------------------------------------------------------
\* image.py: what the bundle builder reads from an image
\* ------------------------------------------------------------------------

BPP_4 == 0

BPP_8 == 1

BPP_16 == 2

INTERLACE_EVEN == 4

INTERLACE_ODD == 8

HAS_MARGIN == 16

FLIP == 32

\* a | b for two naturals
RECURSIVE BitOr(_, _)
BitOr(a, b) ==
    IF a = 0 THEN b
    ELSE IF b = 0 THEN a
    ELSE Max(a % 2, b % 2) + 2 * BitOr(a \div 2, b \div 2)

\* ImageWrapper.getPaletteXY
getPaletteXY(image) ==
    IF image.palettePage = None THEN 0
    ELSE BitOr(image.px \div 16, image.py * 64)

\* ImageWrapper.getFlags
getFlags(image) ==
    BitOr(BitOr(BitOr(
        CASE image.bpp = 4 -> BPP_4
          [] image.bpp = 8 -> BPP_8
          [] OTHER         -> BPP_16,
        IF image.field = None THEN 0
        ELSE IF image.field # 0 THEN INTERLACE_ODD ELSE INTERLACE_EVEN),
        IF image.innerWidth < image.width
           \/ image.innerHeight < image.height
        THEN HAS_MARGIN ELSE 0),
        IF image.flip THEN FLIP ELSE 0)

\* ImageWrapper.toInterlaced: the error raised by
\*   ImageWrapper(self.data[field::2, :], self.palette, self.margin,
\*                self.padding, self.flipModes, field)
\* The parameters of __init__ are (data, palette, leftMargin, rightMargin,
\* padding, flipModes, field), so the padding, an int, arrives as
\* rightMargin and "rightMargin[0]" raises TypeError before an image is
\* made, for every image and either field.
toInterlaced(image, field) == "TypeError"

\* The number of bytes of image.data: one byte per pixel with a palette,
\* two without
dataBytes(image) ==
    image.innerWidth * image.innerHeight * (IF image.bpp = 16 THEN 2 ELSE 1)

\* ------------------------------------------------------------------------
\* util.py: byte strings, alignment, hash32
\* ------------------------------------------------------------------------
\* A byte string (bytes, bytearray) is a sequence of runs. A run stands for
\* len bytes, those from position from on of the byte string src names:
\*   "zero"           zero bytes
\*   "file"           the contents of a file (rec: its number)
\*   "pixels"         the data of an image (rec: its byte string)
\*   "adpcm"          the data of a sound (rec: its number)
\*   "soundHeader"    SOUND_HEADER_STRUCT.pack(rec)
\*   "bgHeader"       BG_HEADER_STRUCT.pack(rec)
\*   "textureHeader"  TEXTURE_HEADER_STRUCT.pack(rec)
\*   "frame"          the bytes rec of a packed TEXTURE_FRAME_STRUCT
\*   "bundleHeader"   BUNDLE_HEADER_STRUCT.pack(magic, rec)
\*   "index"          the bytes rec themselves
\*   "page"           page.tobytes() of a texture page (rec: atlas, slice)

Run(t, rec, len) == [ src |-> [ t |-> t, rec |-> rec ], from |-> 0, len |-> len ]

Zeros(n) == Run("zero", << >>, n)

\* len(buf)
RECURSIVE bufLen(_)
bufLen(buf) ==
    IF Len(buf) = 0 THEN 0 ELSE Head(buf).len + bufLen(Tail(buf))

\* bytearray.extend: empty runs leave no trace
extend(buf, more) == buf \o SelectSeq(more, LAMBDA r : r.len > 0)

\* buf[:n] for 0 <= n
RECURSIVE take(_, _)
take(buf, n) ==
    IF n <= 0 \/ Len(buf) = 0 THEN << >>
    ELSE IF Head(buf).len <= n
    THEN << Head(buf) >> \o take(Tail(buf), n - Head(buf).len)
    ELSE << [ Head(buf) EXCEPT !.len = n ] >>

\* buf[n:] for 0 <= n
RECURSIVE drop(_, _)
drop(buf, n) ==
    IF Len(buf) = 0 THEN << >>
    ELSE IF n <= 0 THEN buf
    ELSE IF Head(buf).len <= n THEN drop(Tail(buf), n - Head(buf).len)
    ELSE << [ Head(buf) EXCEPT !.from = @ + n, !.len = @ - n ] >> \o Tail(buf)

\* buf[start:stop] = more, for 0 <= start <= stop: a slice that reaches
\* past the end is cut at the end, as Python does
setSlice(buf, start, stop, more) ==
    extend(take(buf, start), more) \o drop(buf, stop)

\* data.ljust(width, padding)
ljust(data, width) ==
    IF width > bufLen(data) THEN Append(data, Zeros(width - bufLen(data)))
    ELSE data

\* No alignment at all
alignToNothing(data, length) == data

\* alignToMultiple
alignToMultiple(data, length) ==
    ljust(data, CeilDiv(bufLen(data), length) * length)

padBy(obj, remaining, length) ==
    IF remaining < length THEN Append(obj, Zeros(remaining)) ELSE obj

\* An alignment to half the length asked for
alignMutableToHalf(obj, length) ==
    padBy(obj, (length \div 2) - (bufLen(obj) % (length \div 2)),
          length \div 2)

\* alignMutableToMultiple: what obj is afterwards
alignMutableToMultiple(obj, length) ==
    padBy(obj, length - (bufLen(obj) % length), length)

\* 32-bit values are pairs << high 16 bits, low 16 bits >>
Word == 65536

\* One round of hash32 for an item of a str: byte = ord(item), and
\* value = (byte + (value << 6) + (value << 16) - value) & 0xffffffff
hash32Round(value, byte) ==
    LET shl6lo == (value[2] * 64) % Word
        shl6hi == (value[1] * 64 + (value[2] * 64) \div Word) % Word
        lo     == (byte % Word) + shl6lo - value[2] + Word
        hi     == (byte \div Word) + shl6hi + value[2] - value[1]
                    + (lo \div Word) - 1 + Word
    IN  << hi % Word, lo % Word >>

RECURSIVE hash32From(_, _, _)
hash32From(obj, k, value) ==
    IF k > Len(obj) THEN value
    ELSE hash32From(obj, k + 1, hash32Round(value, obj[k]))

\* hash32 of a str, given as the sequence of its code points
hash32(obj) == hash32From(obj, 1, << 0, 0 >>)

\* ------------------------------------------------------------------------
\* builders.py: IndexBuilder
\* ------------------------------------------------------------------------
\* self.entries is the sequence of the values of the dict in insertion
\* order; the key of an entry is its field hash. An entry is the list
\* [ hash, offset, length, entryType, next ]. self.buckets and self.chained
\* hold entries of self.entries, given by their position in it.

INDEX_HEADER_STRUCT_size == 4

INDEX_ENTRY_STRUCT_size == 8

INDEX_EXT_ENTRY_STRUCT_size == 16

\* _hash in self.entries, never true
hasEntryNever(ents, h) == FALSE

\* _hash in self.entries
hasEntry(ents, h) == \E k \in DOMAIN ents : ents[k].hash = h

\* self.entries[_hash] = entry
putEntry(ents, entry) ==
    IF \E k \in DOMAIN ents : ents[k].hash = entry.hash
    THEN [ k \in DOMAIN ents |->
             IF ents[k].hash = entry.hash THEN entry ELSE ents[k] ]
    ELSE Append(ents, entry)

\* IndexBuilder.addEntry, with _hash = hash32(name)
indexAddEntry(ents, h, offset, length, entryType) ==
    IF hasEntry(ents, h)
    THEN [ error |-> "IndexError", entries |-> ents ]
    ELSE [ error |-> "",
           entries |-> putEntry(ents,
               [ hash |-> h, offset |-> offset, length |-> length,
                 entryType |-> entryType, next |-> 0 ]) ]

\* 2 ** math.ceil(math.log2(n)) for n >= 1, from p = 1
RECURSIVE powerOfTwoFrom(_, _)
powerOfTwoFrom(n, p) == IF p >= n THEN p ELSE powerOfTwoFrom(n, 2 * p)

\* _hash % numBuckets
hashMod(h, numBuckets) == (h[1] * (Word % numBuckets) + h[2]) % numBuckets

\* .next of a chained entry, without the number of buckets
chainLinkFromZero(numBuckets, numChained) == numChained

\* numBuckets + len(self.chained)
chainLink(numBuckets, numChained) == numBuckets + numChained

\* _buildTable: "while lastEntry[4]" from the entry e
RECURSIVE lastOfChain(_, _)
lastOfChain(st, e) ==
    IF st.entries[e].next # 0
    THEN lastOfChain(st,
             st.chained[st.entries[e].next - Len(st.buckets) + 1])
    ELSE e

linkAfter(st, k, lastEntry) ==
    [ st EXCEPT
        !.entries[lastEntry].next = chainLink(Len(st.buckets),
                                              Len(st.chained)),
        !.chained = Append(@, k) ]

\* _buildTable: the body of the loop, for the k-th entry
tableInsert(st, k, hm) ==
    IF st.buckets[hm + 1] = None
    THEN [ st EXCEPT !.buckets[hm + 1] = k ]
    ELSE linkAfter(st, k, lastOfChain(st, st.buckets[hm + 1]))

RECURSIVE buildTableLoop(_, _)
buildTableLoop(st, k) ==
    IF k > Len(st.entries) THEN st
    ELSE buildTableLoop(
             tableInsert(st, k,
                 hashMod(st.entries[k].hash, Len(st.buckets))),
             k + 1)

\* IndexBuilder._buildTable: math.log2(0) raises ValueError
buildTable(ents) ==
    IF Len(ents) = 0
    THEN [ error |-> "ValueError", entries |-> ents,
           buckets |-> None, chained |-> None ]
    ELSE buildTableLoop(
             [ error |-> "", entries |-> ents,
               buckets |-> [ i \in 1..powerOfTwoFrom(Len(ents), 1) |-> None ],
               chained |-> << >> ], 1)

\* struct "H": an unsigned 16-bit value, little-endian
packH(v) == << v % 256, (v \div 256) % 256 >>

\* struct "I" of a value below 2^31
packI(v) == packH(v % Word) \o packH(v \div Word)

\* struct "I" of a 32-bit value given as a pair
packI32(h) == packH(h[2]) \o packH(h[1])

\* INDEX_EXT_ENTRY_STRUCT.pack / INDEX_ENTRY_STRUCT.pack of an entry
packEntry(entry, extended, globalOffset) ==
    IF extended
    THEN packI32(entry.hash) \o packI(entry.offset + globalOffset)
            \o packI(entry.length) \o packH(entry.entryType)
            \o packH(entry.next)
    ELSE packI32(entry.hash) \o packH(entry.offset + globalOffset)
            \o packH(entry.next)

\* the packed ( 0, 0, 0, 0, 0 ) of a bucket that is None
packEmpty(extended) ==
    [ i \in 1..(IF extended THEN INDEX_EXT_ENTRY_STRUCT_size
                ELSE INDEX_ENTRY_STRUCT_size) |-> 0 ]

RECURSIVE serializeFrom(_, _, _, _, _)
serializeFrom(ents, slots, k, extended, globalOffset) ==
    IF k > Len(slots) THEN << >>
    ELSE (IF slots[k] = None THEN packEmpty(extended)
          ELSE packEntry(ents[slots[k]], extended, globalOffset))
         \o serializeFrom(ents, slots, k + 1, extended, globalOffset)

\* IndexBuilder.generate: the length it returns
indexGenerateLength(table, extended) ==
    INDEX_HEADER_STRUCT_size
        + (Len(table.buckets) + Len(table.chained))
            * (IF extended THEN INDEX_EXT_ENTRY_STRUCT_size
               ELSE INDEX_ENTRY_STRUCT_size)

\* IndexBuilder.serialize: the bytes
indexSerialize(ents, bkts, chn, extended, globalOffset) ==
    packH(Len(bkts)) \o packH(Len(chn))
        \o serializeFrom(ents, bkts \o chn, 1, extended, globalOffset)

\* ------------------------------------------------------------------------
\* builders.py: BundleBuilder
\* ------------------------------------------------------------------------
\* A BundleBuilder is a record b of its attributes: entries, buckets and
\* chained of the IndexBuilder it extends, and
\*   textures     the dict of addTexture, as the sequence of its items in
\*                insertion order: offset (the key) and fields, the images
\*                given by their position in textureList
\*   textureList  the ImageWrapper objects handed to buildTexturePages
\*   header, vramData, spuData, data   the four sections

BUNDLE_HEADER_STRUCT_size == 28

BUNDLE_HEADER_VERSION == 2

BG_HEADER_STRUCT_size == 8

TEXTURE_HEADER_STRUCT_size == 8

TEXTURE_FRAME_STRUCT_size == 16

SOUND_HEADER_STRUCT_size == 8

FILE == 0

TEXTURE == 16

ITEXTURE == 17

BG == 32

IBG == 33

SOUND == 48

STRING_TABLE == 64

DATA_SIZE == 1572864

VRAM_DATA_SIZE == 1048576

SPU_DATA_SIZE == 512000

SECTOR_SIZE == 2048

\* BundleBuilder.__init__
NewBundle ==
    [ entries |-> << >>, buckets |-> None, chained |-> None,
      textures |-> << >>, textureList |-> << >>, header |-> None,
      vramData |-> << >>, spuData |-> << >>, data |-> << >> ]

\* BundleBuilder.addEntry after super().addEntry, which returned or raised
afterIndexAdd(b, r, data) ==
    IF r.error # "" THEN [ error |-> r.error, b |-> b ]
    ELSE [ error |-> "",
           b |-> [ b EXCEPT !.entries = r.entries,
                            !.data = extend(@, alignToMultiple(data, 4)) ] ]

\* BundleBuilder.addEntry
addEntry(b, name, data, entryType) ==
    IF bufLen(b.data) + bufLen(data) > DATA_SIZE
    THEN [ error |-> "RuntimeError", b |-> b ]
    ELSE afterIndexAdd(b,
             indexAddEntry(b.entries, hash32(name), bufLen(b.data),
                           bufLen(data), entryType),
             data)

\* BundleBuilder.addFile: file is [ id, length ]
addFile(b, name, file) ==
    addEntry(b, name, extend(<< >>, << Run("file", << file.id >>,
                                           file.length) >>), FILE)

\* the frames of a texture, one mip level after the other
RECURSIVE flatten(_)
flatten(lists) ==
    IF Len(lists) = 0 THEN << >> ELSE Head(lists) \o flatten(Tail(lists))

\* self.textures[key] = fields
setTexture(textures, key, fields) ==
    IF \E k \in DOMAIN textures : textures[k].offset = key
    THEN [ k \in DOMAIN textures |->
             IF textures[k].offset = key
             THEN [ offset |-> key, fields |-> fields ] ELSE textures[k] ]
    ELSE Append(textures, [ offset |-> key, fields |-> fields ])

\* addTexture: the body of the loops after the size check, for one mip level
registerLevel(acc, dataLen, fields) ==
    [ acc EXCEPT
        !.textures    = setTexture(@, dataLen + bufLen(acc.header),
                          [ i \in DOMAIN fields |->
                              Len(acc.textureList) + i ]),
        !.textureList = @ \o fields,
        !.header      = Append(@,
                          Zeros(TEXTURE_FRAME_STRUCT_size * Len(fields))) ]

\* addTexture: "for frame in images: for mipLevel in frame"
RECURSIVE addTextureLoop(_, _, _, _, _)
addTextureLoop(acc, levels, k, dataLen, interlaced) ==
    IF k > Len(levels) \/ acc.error # "" THEN acc
    ELSE IF levels[k].innerWidth > 255 \/ levels[k].innerHeight > 255
    THEN [ acc EXCEPT !.error = "RuntimeError" ]
    ELSE IF interlaced
    THEN [ acc EXCEPT !.error = toInterlaced(levels[k], 0) ]
    ELSE addTextureLoop(registerLevel(acc, dataLen, << levels[k] >>),
                        levels, k + 1, dataLen, interlaced)

\* addTexture after the loops, which ended or raised
afterLevels(b, name, interlaced, acc) ==
    IF acc.error # ""
    THEN [ error |-> acc.error,
           b |-> [ b EXCEPT !.textures = acc.textures,
                            !.textureList = acc.textureList ] ]
    ELSE addEntry([ b EXCEPT !.textures = acc.textures,
                             !.textureList = acc.textureList ],
                  name, acc.header,
                  IF interlaced THEN ITEXTURE ELSE TEXTURE)

\* BundleBuilder.addTexture: images is a non-empty list of frames, each a
\* non-empty list of mip levels
addTexture(b, name, images, interlaced) ==
    afterLevels(b, name, interlaced,
        addTextureLoop(
            [ error |-> "", textures |-> b.textures,
              textureList |-> b.textureList,
              header |-> << Run("textureHeader",
                                << images[1][1].width, images[1][1].height,
                                   Len(images), Len(images[1]) >>,
                                TEXTURE_HEADER_STRUCT_size) >> ],
            flatten(images), 1, bufLen(b.data), interlaced))

\* image.data as bytes
pixels(image) == Run("pixels", image.data, dataBytes(image))

\* BundleBuilder.addBG: the header is packed, then the bytes of the two
\* fields, or of the image, are appended to it
addBG(b, name, image, x, y, interlaced) ==
    IF interlaced
    THEN [ error |-> toInterlaced(image, 0), b |-> b ]
    ELSE addEntry(b, name,
             extend(<< Run("bgHeader",
                           << x, y, image.innerWidth, image.innerHeight >>,
                           BG_HEADER_STRUCT_size) >>,
                    << pixels(image) >>),
             BG)

\* SoundWrapper.getSPUSampleRate: round(sampleRate * 0x1000 / 44100), a
\* quotient that is never half way between two integers
getSPUSampleRate(sound) == (sound.sampleRate * 8192 + 44100) \div 88200

\* addSound after addEntry, which returned or raised
afterSoundEntry(r, sound) ==
    IF r.error # "" THEN r
    ELSE [ r EXCEPT !.b.spuData =
             extend(@, << Run("adpcm", << sound.id >>,
                              sound.channels * sound.length) >>) ]

\* An addSound that tests the left channel only
addSoundLeftOnly(b, name, sound, leftOffset, rightOffset) ==
    IF leftOffset + sound.length > SPU_DATA_SIZE
    THEN [ error |-> "RuntimeError", b |-> b ]
    ELSE afterSoundEntry(
             addEntry(b, name,
                 << Run("soundHeader",
                        << leftOffset \div 8, rightOffset \div 8,
                           sound.length \div 8, getSPUSampleRate(sound) >>,
                        SOUND_HEADER_STRUCT_size) >>,
                 SOUND),
             sound)

\* addSound from the size test on
addSoundAt(b, name, sound, leftOffset, rightOffset) ==
    IF rightOffset + sound.length > SPU_DATA_SIZE
    THEN [ error |-> "RuntimeError", b |-> b ]
    ELSE afterSoundEntry(
             addEntry(b, name,
                 << Run("soundHeader",
                        << leftOffset \div 8, rightOffset \div 8,
                           sound.length \div 8, getSPUSampleRate(sound) >>,
                        SOUND_HEADER_STRUCT_size) >>,
                 SOUND),
             sound)

\* BundleBuilder.addSound: sound is [ id, channels, length, sampleRate ],
\* with sound.data of shape ( channels, length )
addSound(b, name, sound) ==
    IF sound.channels > 2 THEN [ error |-> "RuntimeError", b |-> b ]
    ELSE addSoundAt(b, name, sound, bufLen(b.spuData),
             bufLen(b.spuData)
                 + (IF sound.channels = 2 THEN sound.length ELSE 0))

\* The bytes of a texture page: 256 rows of ATLAS_MIN_WIDTH * 2 bytes
texturePageBytes == ATLAS_HEIGHT * ATLAS_MIN_WIDTH * 2

\* _buildVRAM: page.tobytes() for page in chain(*buckets)
pageRuns(pages) ==
    [ k \in DOMAIN pages |->
        Run("page", << pages[k].atlas, pages[k].slice >>,
            texturePageBytes) ]

\* struct "B": an unsigned 8-bit value
packB(v) == << v >>

\* A frame structure with 16-bit coordinates: "< 4H 4B H I"
packFrameWide(v) ==
    packH(v[1]) \o packH(v[2]) \o packH(v[3]) \o packH(v[4])
        \o packB(v[5]) \o packB(v[6]) \o packB(v[7]) \o packB(v[8])
        \o packH(v[9]) \o packI(v[10])

\* TEXTURE_FRAME_STRUCT.pack(*v), "< 2H 6B H I", of ten values
packFrame(v) ==
    packH(v[1]) \o packH(v[2])
        \o packB(v[3]) \o packB(v[4]) \o packB(v[5]) \o packB(v[6])
        \o packB(v[7]) \o packB(v[8])
        \o packH(v[9]) \o packI(v[10])

\* _buildVRAM: the values packed for a field
frameValues(field) ==
    << field.page,
       IF field.palettePage = None THEN 0 ELSE field.palettePage,
       field.x, field.y, field.margin[1], field.margin[2],
       field.innerWidth, field.innerHeight,
       getPaletteXY(field), getFlags(field) >>

frameBytes(bytes) == Run("frame", bytes, Len(bytes))

\* _buildVRAM: TEXTURE_FRAME_STRUCT.pack(...) for a field
frameRecord(field) == frameBytes(packFrame(frameValues(field)))

\* _buildVRAM: "for index, field in enumerate(fields)", from the j-th field
RECURSIVE patchFields(_, _, _, _)
patchFields(data, texture, j, imgs) ==
    IF j > Len(texture.fields) THEN data
    ELSE patchFields(
             setSlice(data,
                 texture.offset + TEXTURE_FRAME_STRUCT_size * (j - 1),
                 texture.offset + TEXTURE_FRAME_STRUCT_size * j,
                 << frameRecord(imgs[texture.fields[j]]) >>),
             texture, j + 1, imgs)

\* _buildVRAM: "for offset, fields in self.textures.items()"
RECURSIVE patchTextures(_, _, _, _)
patchTextures(data, textures, k, imgs) ==
    IF k > Len(textures) THEN data
    ELSE patchTextures(patchFields(data, textures[k], 1, imgs),
                       textures, k + 1, imgs)

\* _buildVRAM after the pages were appended to vramData
afterPages(b, bkts) ==
    IF bufLen(b.vramData) > VRAM_DATA_SIZE
    THEN [ error |-> "RuntimeError", b |-> b, buckets |-> bkts ]
    ELSE [ error |-> "",
           b |-> [ b EXCEPT !.data = patchTextures(@, b.textures, 1,
                                                   b.textureList) ],
           buckets |-> bkts ]

\* _buildVRAM after buildTexturePages, which returned or raised: it has
\* set the placement attributes of the images of textureList
afterPacking(b, r) ==
    IF r.error # ""
    THEN [ error |-> r.error,
           b |-> [ b EXCEPT !.textureList = r.images ],
           buckets |-> << >> ]
    ELSE afterPages([ b EXCEPT
                        !.textureList = r.images,
                        !.vramData = extend(@, pageRuns(flatten(r.buckets)))
                      ],
                    r.buckets)

\* BundleBuilder._buildVRAM
buildVRAM(b, options) ==
    afterPacking(b, buildTexturePages(b.textureList, options))

indexRun(bytes) == Run("index", bytes, Len(bytes))

\* value.encode(encoding) returns, for the encodings "ascii" and "utf-8":
\* "ascii" raises UnicodeEncodeError on a code point from 128 on
canEncode(value, encoding) ==
    encoding = "utf-8" \/ \A i \in DOMAIN value : value[i] < 128

\* value.encode(encoding), for code points below 2048: one byte for a code
\* point below 128, two bytes for the others
encode(value, encoding) ==
    flatten([ i \in DOMAIN value |->
                IF value[i] < 128 THEN << value[i] >>
                ELSE << 192 + (value[i] \div 64), 128 + (value[i] % 64) >> ])

\* The offset of the string added last
lastOffset(offsets, value) == offsets[Len(offsets)].offset

\* offsets[value], with offsets the list of the [ value, offset ] set so far
offsetOf(offsets, value) ==
    offsets[CHOOSE k \in DOMAIN offsets : offsets[k].value = value].offset

\* addStringTable: table.addEntry(key, offset) returned or raised
afterTableAdd(st, r) ==
    IF r.error # "" THEN [ st EXCEPT !.error = r.error ]
    ELSE [ st EXCEPT !.table = r.entries ]

\* addStringTable: one turn of the loop over entries.items(), on
\* st = [ error, table, blob, offsets ]
stringTableStep(st, key, value, encoding, align) ==
    IF \E k \in DOMAIN st.offsets : st.offsets[k].value = value
    THEN afterTableAdd(st,
             indexAddEntry(st.table, hash32(key),
                           offsetOf(st.offsets, value), 0, 0))
    ELSE IF ~canEncode(value, encoding)
    THEN [ st EXCEPT !.error = "UnicodeEncodeError" ]
    ELSE afterTableAdd(
             [ st EXCEPT
                 !.blob = (IF align # 0
                           THEN alignMutableToMultiple(
                                    extend(@, << indexRun(encode(value,
                                                     encoding)),
                                                 Zeros(1) >>),
                                    align)
                           ELSE extend(@, << indexRun(encode(value,
                                                 encoding)),
                                             Zeros(1) >>)),
                 !.offsets = Append(@, [ value |-> value,
                                         offset |-> bufLen(st.blob) ]) ],
             indexAddEntry(st.table, hash32(key), bufLen(st.blob), 0, 0))

\* addStringTable: the loop over entries.items(); entries is the list of
\* the << key, value >> of the dict, in its order
RECURSIVE stringTableLoop(_, _, _, _, _)
stringTableLoop(st, entries, k, encoding, align) ==
    IF k > Len(entries) \/ st.error # "" THEN st
    ELSE stringTableLoop(
             stringTableStep(st, entries[k][1], entries[k][2], encoding,
                             align),
             entries, k + 1, encoding, align)

\* addStringTable: table.generate(False), table.serialize(False, length)
\* and data.extend(blob); the uint16 fields of an entry hold offset + length
\* and next, or struct.error is raised
tableData(table, blob) ==
    IF table.error # "" THEN [ error |-> table.error, data |-> << >> ]
    ELSE IF \E k \in DOMAIN table.entries :
                \/ table.entries[k].offset
                       + indexGenerateLength(table, FALSE) > 65535
                \/ table.entries[k].next > 65535
    THEN [ error |-> "struct.error", data |-> << >> ]
    ELSE [ error |-> "",
           data |-> extend(
               << indexRun(indexSerialize(table.entries, table.buckets,
                      table.chained, FALSE,
                      indexGenerateLength(table, FALSE))) >>,
               blob) ]

\* addStringTable up to self.addEntry: the data it builds, or the error
stringTableData(entries, encoding, align) ==
    LET st == stringTableLoop([ error |-> "", table |-> << >>,
                                blob |-> << >>, offsets |-> << >> ],
                              entries, 1, encoding, align)
    IN  IF st.error # "" THEN [ error |-> st.error, data |-> << >> ]
        ELSE tableData(buildTable(st.table), st.blob)

\* addStringTable: self.addEntry(name, data, EntryType.STRING_TABLE)
addTableEntry(b, name, p) ==
    IF p.error # "" THEN [ error |-> p.error, b |-> b ]
    ELSE addEntry(b, name, p.data, STRING_TABLE)

\* BundleBuilder.addStringTable
addStringTable(b, name, entries, encoding, align) ==
    addTableEntry(b, name, stringTableData(entries, encoding, align))

\* generate: the four sections are aligned to the sector size
alignSections(b) ==
    [ b EXCEPT !.header   = alignMutableToMultiple(@, SECTOR_SIZE),
               !.vramData = alignMutableToMultiple(@, SECTOR_SIZE),
               !.spuData  = alignMutableToMultiple(@, SECTOR_SIZE),
               !.data     = alignMutableToMultiple(@, SECTOR_SIZE) ]

\* generate: the header is packed over the dummy header. rec holds the
\* version, the header length, the three section lengths and the atlas
\* counts (the magic is a constant).
withHeader(b, bkts) ==
    [ b EXCEPT !.header =
        setSlice(@, 0, BUNDLE_HEADER_STRUCT_size,
            << Run("bundleHeader",
                   << BUNDLE_HEADER_VERSION, bufLen(b.header),
                      bufLen(b.vramData), bufLen(b.spuData),
                      bufLen(b.data) >>
                   \o [ i \in DOMAIN bkts |-> Len(bkts[i]) ],
                   BUNDLE_HEADER_STRUCT_size) >>) ]

\* generate after _buildVRAM, which returned or raised
afterVRAM(v) ==
    IF v.error # "" THEN v
    ELSE [ v EXCEPT !.b =
             withHeader(
                 alignSections(
                     [ v.b EXCEPT !.header =
                         << Zeros(BUNDLE_HEADER_STRUCT_size),
                            indexRun(indexSerialize(v.b.entries,
                                v.b.buckets, v.b.chained, TRUE, 0)) >> ]),
                 v.buckets) ]

\* generate after super().generate(True), which returned or raised
afterTable(b, table, options) ==
    IF table.error # ""
    THEN [ error |-> table.error, b |-> b, buckets |-> << >> ]
    ELSE afterVRAM(buildVRAM([ b EXCEPT !.entries = table.entries,
                                        !.buckets = table.buckets,
                                        !.chained = table.chained ],
                             options))

\* BundleBuilder.generate
generate(b, options) == afterTable(b, buildTable(b.entries), options)

\* BundleBuilder.serialize: the sections it yields
serialize(b) == << b.header, b.vramData, b.spuData, b.data >>

\* ------------------------------------------------------------------------
\* The inputs of the model
\* ------------------------------------------------------------------------

\* The images a texture list is drawn from. Two kinds with the same data
\* have the same pixel bytes: images of 128x2 and of 2x128 pixels both hold
\* 256 bytes, and ImageKinds[6] and [7] hold the same 256.
ImageKinds ==
    << NewImage(<< 1 >>, 1, 128, 16, << 32767 >>, 0, << FALSE >>),
       NewImage(<< 1 >>, 1, 128, 16, << 32766 >>, 0, << FALSE, TRUE >>),
       NewImage(<< 3 >>, 200, 200, 256, << 4660 >>, 0, << FALSE >>),
       NewImage(<< 4 >>, 100, 60, 0, << >>, 0, << FALSE, TRUE >>),
       NewImage(<< 5 >>, 255, 1, 16, << 16 >>, 385, << FALSE >>),
       NewImage(<< 6 >>, 128, 2, 16, << 32767 >>, 0, << FALSE >>),
       NewImage(<< 6 >>, 2, 128, 16, << 21 >>, 0, << FALSE >>),
       NewImage(<< 8 >>, 200, 200, 0, << >>, 0, << TRUE, FALSE >>),
       NewImage(<< 9 >>, 160, 100, 16, << 77 >>, 0, << FALSE >>) >>

\* The images of the scenarios, kinds 10 to 12: 4 bpp images of 200x100
\* and of 100x200 pixels that may be flipped, and an 8 bpp image of
\* 128x128 pixels with a palette of 256 colours
ScenarioKinds ==
    << NewImage(<< 21 >>, 200, 100, 16, << 1057 >>, 0, << FALSE, TRUE >>),
       NewImage(<< 22 >>, 100, 200, 16, << 2114 >>, 0, << FALSE, TRUE >>),
       NewImage(<< 23 >>, 128, 128, 256, << 3171 >>, 0, << FALSE >>) >>

\* Images for single calls of _attemptPacking, kinds 13 to 20: three
\* 4 bpp images of 160x100 pixels with different pixels, a 16 bpp image
\* of 40x200 pixels that may be flipped and 16 bpp images of 88x200, of
\* 64x128, of 32x256 and of 32x100 pixels
PackingKinds ==
    << NewImage(<< 31 >>, 160, 100, 16, << 1 >>, 0, << FALSE >>),
       NewImage(<< 32 >>, 160, 100, 16, << 2 >>, 0, << FALSE >>),
       NewImage(<< 33 >>, 160, 100, 16, << 3 >>, 0, << FALSE >>),
       NewImage(<< 34 >>, 40, 200, 0, << >>, 0, << FALSE, TRUE >>),
       NewImage(<< 35 >>, 88, 200, 0, << >>, 0, << FALSE >>),
       NewImage(<< 36 >>, 64, 128, 0, << >>, 0, << FALSE >>),
       NewImage(<< 37 >>, 32, 256, 0, << >>, 0, << FALSE >>),
       NewImage(<< 38 >>, 32, 100, 0, << >>, 0, << FALSE >>) >>

\* The images of a list of kinds
imagesOf(kinds) ==
    [ i \in DOMAIN kinds |->
        (ImageKinds \o ScenarioKinds \o PackingKinds)[kinds[i]] ]

\* The packer options and the hash seed of the process, together
Configs ==
    { [ discardStep |-> 16, trySplits |-> FALSE, preservePalettes |-> FALSE,
        seed |-> "a" ],
      [ discardStep |-> 32, trySplits |-> TRUE, preservePalettes |-> TRUE,
        seed |-> "b" ],
      [ discardStep |-> 16, trySplits |-> FALSE, preservePalettes |-> FALSE,
        seed |-> CollidingSeed ],
      [ discardStep |-> 64, trySplits |-> FALSE, preservePalettes |-> FALSE,
        seed |-> "b" ],
      [ discardStep |-> 1, trySplits |-> FALSE, preservePalettes |-> FALSE,
        seed |-> "b" ] }

\* Longer lists, on top of every list of up to MaxImages images
ExtraLists ==
    { << 6, 7, 1 >>, << 7, 6, 1 >>, << 8, 4, 4 >>,
      << 10, 11 >>, << 11, 10 >>, << 12 >>, << 10, 18 >> }

ImageLists ==
    UNION { [ 1..n -> 1..Len(ImageKinds) ] : n \in 1..MaxImages }
    \cup ExtraLists

\* The calls of _attemptPacking made on their own: lists of up to
\* MaxAttemptImages images, in atlases of the widths buildAtlases picks
\* and of one or two texture pages in height, with both split modes
AttemptKinds == { 4, 6, 7, 12, 13, 14, 15, 16 }

AttemptLists ==
    UNION { [ 1..n -> AttemptKinds ] : n \in 1..MaxAttemptImages }
    \cup { << 16, 17, 10 >>, << 18, 19, 20 >> }

AttemptSizes == { << 64, 256 >>, << 128, 256 >>, << 256, 256 >>,
                  << 128, 512 >> }

\* Names of bundle entries, as sequences of code points: "a", "e" and "i"
\* have hashes that are equal modulo 4, "\x01\x00" and the one-character
\* name chr(65599) have the same hash 65599, and the hash of "abc" has
\* gone through the 32-bit wrap.
NameA == << 97 >>

NameE == << 101 >>

NameI == << 105 >>

NameB == << 98 >>

NameAbc == << 97, 98, 99 >>

NameCtl == << 1, 0 >>

NameWide == << 65599 >>

FileRequests ==
    { [ name |-> NameA, file |-> [ id |-> 1, length |-> 5 ] ],
      [ name |-> NameE, file |-> [ id |-> 2, length |-> 0 ] ],
      [ name |-> NameCtl, file |-> [ id |-> 3, length |-> 2048 ] ],
      [ name |-> NameWide, file |-> [ id |-> 4, length |-> 7 ] ],
      [ name |-> NameAbc, file |-> [ id |-> 5, length |-> DATA_SIZE ] ] }

\* An image too wide for a texture frame
WideImage == NewImage(<< 10 >>, 256, 2, 0, << >>, 0, << FALSE >>)

TextureRequests ==
    { [ name |-> NameI, images |-> << << ImageKinds[4] >> >>,
        interlaced |-> FALSE ],
      [ name |-> NameA, images |-> << << ImageKinds[1] >> >>,
        interlaced |-> TRUE ],
      [ name |-> NameB, images |-> << << ImageKinds[6] >>,
                                      << ImageKinds[7] >> >>,
        interlaced |-> FALSE ],
      [ name |-> NameE, images |-> << << ImageKinds[9], WideImage >> >>,
        interlaced |-> FALSE ] }

BGRequests ==
    { [ name |-> NameE, image |-> ImageKinds[4], x |-> 0, y |-> 8,
        interlaced |-> FALSE ],
      [ name |-> NameAbc, image |-> ImageKinds[4], x |-> 0, y |-> 0,
        interlaced |-> TRUE ] }

SoundRequests ==
    { [ name |-> NameI,
        sound |-> [ id |-> 1, channels |-> 1, length |-> 16,
                    sampleRate |-> 44100 ] ],
      [ name |-> NameB,
        sound |-> [ id |-> 2, channels |-> 2, length |-> 256000,
                    sampleRate |-> 22050 ] ],
      [ name |-> NameAbc,
        sound |-> [ id |-> 3, channels |-> 3, length |-> 16,
                    sampleRate |-> 44100 ] ] }


\* Keys and values of string tables, as sequences of code points
KeyApple == << 97, 112, 112, 108, 101 >>

KeyBanana == << 98, 97, 110, 97, 110, 97 >>

KeyApple2 == << 97, 112, 112, 108, 101, 50 >>

ValueX == << 120 >>

ValueY == << 121 >>

ValueEAcute == << 233 >>

\* entries is the list of the items of the dict, whose keys are distinct
StringTableRequests ==
    { [ name |-> NameAbc,
        entries |-> << << KeyApple, ValueX >>, << KeyBanana, ValueY >>,
                       << KeyApple2, ValueX >> >>,
        encoding |-> "ascii", align |-> 4 ],
      [ name |-> NameI,
        entries |-> << << NameA, ValueEAcute >>, << NameE, << >> >>,
                       << NameI, ValueEAcute >> >>,
        encoding |-> "utf-8", align |-> 0 ],
      [ name |-> NameE,
        entries |-> << << NameA, ValueX >>, << NameB, ValueEAcute >> >>,
        encoding |-> "ascii", align |-> 4 ],
      [ name |-> NameA,
        entries |-> << << NameCtl, ValueX >>, << NameWide, ValueY >> >>,
        encoding |-> "ascii", align |-> 4 ],
      [ name |-> NameB, entries |-> << >>,
        encoding |-> "ascii", align |-> 4 ] }

\* ------------------------------------------------------------------------
\* State
\* ------------------------------------------------------------------------

VARIABLES
    input,          \* the list of kinds buildTexturePages was called with
    images, opts, pc, rem, pals, index, atlasWidth, palettes, loc, sortPos,
    packedRes, atlases, buckets, indexMap, error
                    \* the fields of the state of buildTexturePages

packerVars ==
    << input, images, opts, pc, rem, pals, index, atlasWidth, palettes, loc,
       sortPos, packedRes, atlases, buckets, indexMap, error >>


\* ------------------------------------------------------------------------
\* State of a BundleBuilder and of the calls made on it
\* ------------------------------------------------------------------------

VARIABLES
    entries, tableBuckets, chained,
                    \* IndexBuilder: entries, buckets and chained
    textures, textureList, header, vramData, spuData, data,
                    \* BundleBuilder: the attributes of the same names
    phase,          \* "adding", then "generated" or "failed" by generate
    lastOp,         \* the last call: its name, the name given, the error
                    \* and the length of what it had for addEntry
    added,          \* what the addEntry calls that returned were given
    calls           \* the number of add calls made

bundleVars ==
    << entries, tableBuckets, chained, textures, textureList, header,
       vramData, spuData, data, phase, lastOp, added, calls >>

\* ------------------------------------------------------------------------
\* State of one call of _attemptPacking made on its own
\* ------------------------------------------------------------------------

VARIABLES
    attempt         \* [ order, width, height, page, altSplit, seed: the
                    \*   arguments and the hash seed of the process,
                    \*   st: the locals after st.n images of the loop,
                    \*   before: the empty spaces before the last of them ]

vars == << packerVars, bundleVars, attempt >>

\* No call of _attemptPacking is made on its own
NoAttempt ==
    [ order |-> << >>, width |-> 0, height |-> 0, page |-> 0,
      altSplit |-> FALSE, seed |-> "a",
      st |-> [ imgs |-> << >>, spaces |-> << >>, area |-> 0, packed |-> 0,
               hashes |-> << >>, n |-> 0 ],
      before |-> << >> ]

\* The BundleBuilder, as a record
Bundle ==
    [ entries |-> entries, buckets |-> tableBuckets, chained |-> chained,
      textures |-> textures, textureList |-> textureList,
      header |-> header, vramData |-> vramData, spuData |-> spuData,
      data |-> data ]

\* The BundleBuilder is b
BundleIs(b) ==
    /\ entries = b.entries
    /\ tableBuckets = b.buckets
    /\ chained = b.chained
    /\ textures = b.textures
    /\ textureList = b.textureList
    /\ header = b.header
    /\ vramData = b.vramData
    /\ spuData = b.spuData
    /\ data = b.data

\* The BundleBuilder becomes b
BundleBecomes(b) ==
    /\ entries' = b.entries
    /\ tableBuckets' = b.buckets
    /\ chained' = b.chained
    /\ textures' = b.textures
    /\ textureList' = b.textureList
    /\ header' = b.header
    /\ vramData' = b.vramData
    /\ spuData' = b.spuData
    /\ data' = b.data

\* BundleBuilder(): nothing was called yet
BundleInit ==
    /\ BundleIs(NewBundle)
    /\ phase = "adding"
    /\ lastOp = [ op |-> "__init__", name |-> << >>, error |-> "",
                  length |-> 0 ]
    /\ added = << >>
    /\ calls = 0

\* The state of buildTexturePages, as a record
Cur ==
    [ images |-> images, opts |-> opts, pc |-> pc, rem |-> rem,
      pals |-> pals, index |-> index, atlasWidth |-> atlasWidth,
      palettes |-> palettes, loc |-> loc, sortPos |-> sortPos,
      packedRes |-> packedRes, atlases |-> atlases, buckets |-> buckets,
      indexMap |-> indexMap, error |-> error ]

\* The state of buildTexturePages becomes n
Becomes(n) ==
    /\ images' = n.images
    /\ opts' = n.opts
    /\ pc' = n.pc
    /\ rem' = n.rem
    /\ pals' = n.pals
    /\ index' = n.index
    /\ atlasWidth' = n.atlasWidth
    /\ palettes' = n.palettes
    /\ loc' = n.loc
    /\ sortPos' = n.sortPos
    /\ packedRes' = n.packedRes
    /\ atlases' = n.atlases
    /\ buckets' = n.buckets
    /\ indexMap' = n.indexMap
    /\ error' = n.error
    /\ UNCHANGED << input, bundleVars, attempt >>

\* The state of buildTexturePages is n
PackerIs(n) ==
    /\ images = n.images
    /\ opts = n.opts
    /\ pc = n.pc
    /\ rem = n.rem
    /\ pals = n.pals
    /\ index = n.index
    /\ atlasWidth = n.atlasWidth
    /\ palettes = n.palettes
    /\ loc = n.loc
    /\ sortPos = n.sortPos
    /\ packedRes = n.packedRes
    /\ atlases = n.atlases
    /\ buckets = n.buckets
    /\ indexMap = n.indexMap
    /\ error = n.error

\* buildTexturePages is called with a list of images and options, on its
\* own: no BundleBuilder is at work
PackerInit ==
    /\ input \in ImageLists
    /\ \E o \in Configs : \E n \in { packerStart(imagesOf(input), o) } :
        PackerIs(n)
    /\ BundleInit
    /\ attempt = NoAttempt

\* A BundleBuilder is at work: buildTexturePages runs inside generate
PackerIdle ==
    /\ input = << >>
    /\ \E o \in { c \in Configs : c.seed = "a" } :
        \E n \in { packerStart(<< >>, o) } : PackerIs(n)

\* ------------------------------------------------------------------------
\* Actions of buildTexturePages / buildAtlases
\* ------------------------------------------------------------------------

BeginAtlas ==
    /\ pc = "loop"
    /\ Len(rem) > 0 \/ Len(pals) > 0
    /\ \E n \in { beginAtlas(Cur) } : Becomes(n)

SearchOrder ==
    /\ pc = "order"
    /\ \E n \in { searchOrderStep(Cur) } : Becomes(n)

Replay ==
    /\ pc = "replay"
    /\ \E n \in { replayStep(Cur) } : Becomes(n)

PackingFailed ==
    /\ pc = "collect"
    /\ palettes.packed = 0 /\ packedRes.packed = 0
    /\ \E n \in { packingFailed(Cur) } : Becomes(n)

YieldAtlas ==
    /\ pc = "collect"
    /\ ~(palettes.packed = 0 /\ packedRes.packed = 0)
    /\ \E n \in { yieldAtlas(Cur) } : Becomes(n)

BucketAtlas ==
    /\ pc = "bucket"
    /\ \E n \in { bucketAtlas(Cur) } : Becomes(n)

RemapPages ==
    /\ pc = "loop"
    /\ Len(rem) = 0 /\ Len(pals) = 0
    /\ \E n \in { remapStep(Cur) } : Becomes(n)

PackerNext ==
    \/ BeginAtlas
    \/ SearchOrder
    \/ Replay
    \/ PackingFailed
    \/ YieldAtlas
    \/ BucketAtlas
    \/ RemapPages

Spec == PackerInit /\ [][PackerNext]_vars

\* ------------------------------------------------------------------------
\* Actions of the BundleBuilder
\* ------------------------------------------------------------------------

\* An add call was made with a name and returned r; length and entryType
\* are what it gave, or would have given, to addEntry.
Called(op, name, r, length, entryType) ==
    /\ BundleBecomes(r.b)
    /\ lastOp' = [ op |-> op, name |-> name, error |-> r.error,
                   length |-> length ]
    /\ added' = IF r.error = ""
                THEN Append(added, [ name |-> name, offset |-> bufLen(data),
                                     length |-> length,
                                     entryType |-> entryType ])
                ELSE added
    /\ calls' = calls + 1
    /\ UNCHANGED << phase, packerVars, attempt >>

AddFile ==
    /\ phase = "adding"
    /\ calls < MaxAdds
    /\ \E q \in FileRequests :
        \E r \in { addFile(Bundle, q.name, q.file) } :
            Called("addFile", q.name, r, q.file.length, FILE)

AddTexture ==
    /\ phase = "adding"
    /\ calls < MaxAdds
    /\ \E q \in TextureRequests :
        \E r \in { addTexture(Bundle, q.name, q.images, q.interlaced) } :
            Called("addTexture", q.name, r,
                   TEXTURE_HEADER_STRUCT_size
                       + TEXTURE_FRAME_STRUCT_size * Len(flatten(q.images))
                           * (IF q.interlaced THEN 2 ELSE 1),
                   IF q.interlaced THEN ITEXTURE ELSE TEXTURE)

AddBG ==
    /\ phase = "adding"
    /\ calls < MaxAdds
    /\ \E q \in BGRequests :
        \E r \in { addBG(Bundle, q.name, q.image, q.x, q.y, q.interlaced) } :
            Called("addBG", q.name, r,
                   BG_HEADER_STRUCT_size + dataBytes(q.image),
                   IF q.interlaced THEN IBG ELSE BG)

AddSound ==
    /\ phase = "adding"
    /\ calls < MaxAdds
    /\ \E q \in SoundRequests :
        \E r \in { addSound(Bundle, q.name, q.sound) } :
            Called("addSound", q.name, r, SOUND_HEADER_STRUCT_size, SOUND)

AddStringTable ==
    /\ phase = "adding"
    /\ calls < MaxAdds
    /\ \E q \in StringTableRequests :
        \E p \in { stringTableData(q.entries, q.encoding, q.align) } :
            \E r \in { addTableEntry(Bundle, q.name, p) } :
                Called("addStringTable", q.name, r, bufLen(p.data),
                       STRING_TABLE)

\* generate(*options) is called, once, after the add calls
Generate ==
    /\ phase = "adding"
    /\ \E o \in Configs :
        \E r \in { generate(Bundle, o) } :
            /\ BundleBecomes(r.b)
            /\ phase' = IF r.error = "" THEN "generated" ELSE "failed"
            /\ lastOp' = [ op |-> "generate", name |-> << >>,
                           error |-> r.error, length |-> 0 ]
            /\ UNCHANGED << added, calls, packerVars, attempt >>

BundleNext ==
    \/ AddFile
    \/ AddTexture
    \/ AddBG
    \/ AddSound
    \/ AddStringTable
    \/ Generate

\* A BundleBuilder is made; buildTexturePages waits for generate
BundleStart ==
    /\ PackerIdle
    /\ BundleInit
    /\ attempt = NoAttempt

SpecBundle == BundleStart /\ [][BundleNext]_vars

\* ------------------------------------------------------------------------
\* One call of _attemptPacking, image by image
\* ------------------------------------------------------------------------

\* _attemptPacking(images, atlasWidth, atlasHeight, page, altSplit) is
\* called: the locals before the loop over the images
attemptStart(imgs, size, altSplit, seed) ==
    [ order |-> [ i \in DOMAIN imgs |-> i ],
      width |-> size[1], height |-> size[2], page |-> 0,
      altSplit |-> altSplit, seed |-> seed,
      st |-> [ imgs |-> imgs,
               spaces |-> << << 0, 0, size[1], size[2] >> >>,
               area |-> 0, packed |-> 0, hashes |-> << >>, n |-> 0 ],
      before |-> << >> ]

AttemptInit ==
    /\ PackerIdle
    /\ BundleInit
    /\ \E kinds \in AttemptLists, size \in AttemptSizes,
          altSplit \in BOOLEAN :
        attempt = attemptStart(imagesOf(kinds), size, altSplit, "a")

\* One turn of the loop over the images
AttemptImage ==
    /\ attempt.st.n < Len(attempt.order)
    /\ \E st \in { attemptPackingStep(attempt.st,
                         attempt.order[attempt.st.n + 1], attempt.page,
                         attempt.altSplit, attempt.seed) } :
        attempt' = [ attempt EXCEPT !.st = st,
                                    !.before = attempt.st.spaces ]
    /\ UNCHANGED << packerVars, bundleVars >>

SpecAttempt == AttemptInit /\ [][AttemptImage]_vars

\* ------------------------------------------------------------------------
\* Properties of the packer
\* ------------------------------------------------------------------------

\* The rectangle of the atlas an image is blitted to, in atlas columns and
\* rows: << x, y, width, height >>
footprint(image) ==
    << image.x, image.y, getPackedSize(image, image.flip)[1],
       getPackedSize(image, image.flip)[2] >>

\* The rectangle the palette of an image is blitted to (px counts strips
\* of 16 columns)
paletteStrip(image) == << image.px * 16, image.py, 2 ^ image.bpp, 1 >>

\* Two rectangles share a cell
overlaps(f, g) ==
    /\ f[1] < g[1] + g[3] /\ g[1] < f[1] + f[3]
    /\ f[2] < g[2] + g[4] /\ g[2] < f[2] + f[4]

\* The footprint of the image crosses no boundary of pages pageW columns
\* wide and 256 rows tall
withinPage(image, pageW) ==
    /\ (footprint(image)[1] % pageW) + footprint(image)[3] <= pageW
    /\ (footprint(image)[2] % 256) + footprint(image)[4] <= 256

\* The n-th image of the list the last attempt of packImages went through
\* was placed into an empty space by that attempt: it has a page, and no
\* image before it in the list that has its hash was placed.
placedItself(n) ==
    LET order == packedRes.order
    IN  /\ images[order[n]].page # None
        /\ \A m \in 1..(n - 1) :
              getHash(images[order[m]], opts.seed)
                  = getHash(images[order[n]], opts.seed)
              => images[order[m]].page = None

C2_NonOverlap ==
    pc = "bucket" =>
        LET atlas == atlases[Len(atlases)]
        IN  /\ \A n, m \in DOMAIN atlas.blits :
                  LET a == images[atlas.blits[n]]
                      b == images[atlas.blits[m]]
                  IN  n < m =>
                        \/ (a.x = b.x /\ a.y = b.y /\ a.flip = b.flip)
                        \/ ~overlaps(footprint(a), footprint(b))
            /\ \A n, m \in DOMAIN atlas.paletteBlits :
                  LET a == images[atlas.paletteBlits[n]]
                      b == images[atlas.paletteBlits[m]]
                  IN  n < m =>
                        \/ (a.px = b.px /\ a.py = b.py)
                        \/ ~overlaps(paletteStrip(a), paletteStrip(b))
            /\ \A n \in DOMAIN atlas.blits :
                  footprint(images[atlas.blits[n]])[2]
                      + footprint(images[atlas.blits[n]])[4]
                  <= atlas.freeHeight
            /\ \A m \in DOMAIN atlas.paletteBlits :
                  images[atlas.paletteBlits[m]].py >= atlas.freeHeight

\* The last attempt of packImages, without the m-th image of its list
attemptWithout(m) ==
    attemptPacking(images, RemoveAt(packedRes.order, m - 1),
                   loc.highestArgs.width, loc.highestArgs.height,
                   loc.highestArgs.page, loc.highestArgs.altSplit, opts.seed)

\* Two images have the same page, position and orientation
samePlacement(a, b) ==
    a.page = b.page /\ a.x = b.x /\ a.y = b.y /\ a.flip = b.flip

C8_FreeHeightAsClaimed ==
    atlasWidth # 0 =>
        palettes.freeHeight
            = palettes.py + (IF palettes.px = 0 THEN 0 ELSE 1)

\* C8, amended: the free height packPalettes returned is
\* py + (1 if px == 0 else 0), for the cursor ( px, py ) it ended with:
\* the row of the cursor is free when no strip was put in it.
C8_FreeHeight ==
    atlasWidth # 0 =>
        palettes.freeHeight
            = palettes.py + (IF palettes.px = 0 THEN 1 ELSE 0)

\* packPalettes has put a strip in the row of the cursor and returned
C8_Witness ==
    /\ pc = "order"
    /\ palettes.packed > 0
    /\ palettes.px # 0
    /\ palettes.freeHeight = palettes.py

\* C9: every atlas yielded by buildAtlases is 64, 128, 192 or 256 columns
\* wide and 256 rows tall.
C9_LegalWidths ==
    \A k \in DOMAIN atlases :
        /\ atlases[k].width \in { 64, 128, 192, 256 }
        /\ atlases[k].height = 256

\* The atlas an image was blitted to / its palette was blitted to
atlasOf(i) ==
    CHOOSE k \in DOMAIN atlases :
        \E n \in DOMAIN atlases[k].blits : atlases[k].blits[n] = i

paletteAtlasOf(i) ==
    CHOOSE k \in DOMAIN atlases :
        \E n \in DOMAIN atlases[k].paletteBlits :
            atlases[k].paletteBlits[n] = i

\* The number of 64-column pages of the atlases up to the j-th that come
\* before the pages of the k-th: those of the wider atlases, and those of
\* the atlases of its width yielded before it
RECURSIVE pagesBefore(_, _)
pagesBefore(k, j) ==
    IF j = 0 THEN 0
    ELSE pagesBefore(k, j - 1)
         + (IF \/ atlases[j].width > atlases[k].width
               \/ (atlases[j].width = atlases[k].width /\ j < k)
            THEN atlases[j].width \div 64 ELSE 0)

firstPage(k) == pagesBefore(k, Len(atlases))

\* chain(*buckets): the texture pages in their final order
allPages == buckets[1] \o buckets[2] \o buckets[3] \o buckets[4]

\* C10: after buildTexturePages, the page (and the palettePage, when set)
\* of every image is the number of pages of the wider atlases plus the
\* number of pages its atlas's bucket held when the atlas was added; the
\* j-th page of an atlas is texture page number firstPage + j, so that the
\* ranges of the atlases are disjoint, cover all page numbers, and the
\* pages of a wider atlas come before those of a narrower one.
C10_PageNumbers ==
    pc = "done" =>
        /\ \A i \in DOMAIN images :
              /\ images[i].page = firstPage(atlasOf(i))
              /\ images[i].palettePage # None
                 => images[i].palettePage = firstPage(paletteAtlasOf(i))
        /\ \A p \in DOMAIN allPages :
              p - 1 = firstPage(allPages[p].atlas + 1) + allPages[p].slice
        /\ \A k \in DOMAIN atlases :
              \A j \in 0..((atlases[k].width \div 64) - 1) :
                  /\ firstPage(k) + j + 1 \in DOMAIN allPages
                  /\ allPages[firstPage(k) + j + 1]
                        = [ atlas |-> k - 1, slice |-> j ]
        /\ \A k1, k2 \in DOMAIN atlases :
              atlases[k1].width > atlases[k2].width
              => firstPage(k1) + (atlases[k1].width \div 64) <= firstPage(k2)

\* buildTexturePages returned two atlases of different widths, and an
\* image of the narrower one got a page number after the wider one's pages
C10_Witness ==
    /\ pc = "done"
    /\ Len(atlases) = 2
    /\ atlases[1].width = 256 /\ atlases[2].width = 128
    /\ \E i \in DOMAIN images : images[i].page = 4

\* What a run of buildTexturePages leaves: the error, the placement of
\* every image and palette, and the texture pages
outcome(s) ==
    [ error      |-> s.error,
      placements |-> [ i \in DOMAIN s.images |->
                         << s.images[i].page, s.images[i].x, s.images[i].y,
                            s.images[i].flip, s.images[i].palettePage,
                            s.images[i].px, s.images[i].py >> ],
      buckets    |-> s.buckets ]

\* C7: a run of buildTexturePages under any hash seed leaves what a run
\* on the same images and options leaves under another seed: the same
\* error, the same placement of every image and palette, the same pages.
C7_SeedIndependent ==
    pc \in { "done", "failed" } =>
        outcome(Cur) = outcome(buildTexturePages(imagesOf(input),
                                   [ opts EXCEPT !.seed = "a" ]))

\* ------------------------------------------------------------------------
\* Properties of the builders
\* ------------------------------------------------------------------------

\* _buildTable has run: generate returned, or raised after super().generate
tableBuilt ==
    \/ phase = "generated"
    \/ phase = "failed" /\ lastOp.error # "ValueError"

\* The runtime's view of an extended index: the 16-bit value at a byte
\* position, and the i-th entry after the 4 bytes of the header
readH(bytes, pos) == bytes[pos + 1] + 256 * bytes[pos + 2]

readEntry(bytes, i) ==
    LET p == INDEX_HEADER_STRUCT_size + INDEX_EXT_ENTRY_STRUCT_size * i
    IN  [ hash      |-> << readH(bytes, p + 2), readH(bytes, p) >>,
          offset    |-> readH(bytes, p + 4) + Word * readH(bytes, p + 6),
          length    |-> readH(bytes, p + 8) + Word * readH(bytes, p + 10),
          entryType |-> readH(bytes, p + 12),
          next      |-> readH(bytes, p + 14) ]

\* The entries a lookup passes from the i-th on, following next while it
\* is not zero (and for no more steps than there are entries)
RECURSIVE chainFrom(_, _, _)
chainFrom(bytes, i, fuel) ==
    IF fuel = 0 THEN << >>
    ELSE << readEntry(bytes, i) >>
            \o (IF readEntry(bytes, i).next = 0 THEN << >>
                ELSE chainFrom(bytes, readEntry(bytes, i).next, fuel - 1))

\* The chain of the bucket of a hash
chainOf(bytes, h) ==
    chainFrom(bytes, hashMod(h, readH(bytes, 0)),
              readH(bytes, 0) + readH(bytes, 2))

\* C3: once the table is built, the lookup of every name added (start at
\* bucket hash32(name) mod the number of buckets, follow the next links
\* while non-zero) passes exactly one serialized entry with the hash of
\* the name, and its offset, length and kind are those given when the
\* name was added.
C3_IndexRoundTrip ==
    tableBuilt =>
        \A k \in DOMAIN added :
            LET h     == hash32(added[k].name)
                found == SelectSeq(
                            chainOf(indexSerialize(entries, tableBuckets,
                                                   chained, TRUE, 0), h),
                            LAMBDA e : e.hash = h)
            IN  /\ Len(found) = 1
                /\ found[1].offset = added[k].offset
                /\ found[1].length = added[k].length
                /\ found[1].entryType = added[k].entryType

\* A name is found at the end of a chain of three entries
C3_Witness ==
    /\ phase = "generated"
    /\ \E k \in DOMAIN added :
        LET c == chainOf(indexSerialize(entries, tableBuckets, chained,
                                        TRUE, 0),
                         hash32(added[k].name))
        IN  Len(c) = 3 /\ c[3].hash = hash32(added[k].name)

AddOps ==
    { "addFile", "addTexture", "addBG", "addSound", "addStringTable" }

\* C4: an add call with a name whose hash is the hash of an entry raises
\* and leaves the entries and the main data as they were; the hashes of
\* the entries are pairwise distinct.
C4_DuplicateNameRaises ==
    [][ /\ ( /\ lastOp'.op \in AddOps
             /\ \E k \in DOMAIN entries :
                    entries[k].hash = hash32(lastOp'.name) )
            => ( /\ lastOp'.error # ""
                 /\ entries' = entries
                 /\ data' = data )
        /\ \A j, k \in DOMAIN entries' :
            j # k => entries'[j].hash # entries'[k].hash ]_vars

\* A name that was never added is refused, for its hash is that of
\* another name, with main data in the buffer
C4_Witness ==
    /\ lastOp.op = "addFile"
    /\ lastOp.error = "IndexError"
    /\ lastOp.name = NameWide
    /\ \A k \in DOMAIN added : added[k].name # NameWide
    /\ \E k \in DOMAIN added : hash32(added[k].name) = hash32(NameWide)
    /\ Len(data) > 0

\* C5: after generate, the header length and the three section lengths
\* written in the bundle header are multiples of the sector size and are
\* the lengths of the sections serialize yields, empty ones included.
C5_SectorAligned ==
    phase = "generated" =>
        /\ header[1].src.t = "bundleHeader"
        /\ header[1].len = BUNDLE_HEADER_STRUCT_size
        /\ \A i \in 1..4 :
            /\ header[1].src.rec[i + 1] % SECTOR_SIZE = 0
            /\ header[1].src.rec[i + 1] = bufLen(serialize(Bundle)[i])

\* A bundle with no texture and no sound, and main data that needed padding
C5_Witness ==
    /\ phase = "generated"
    /\ bufLen(vramData) = 0
    /\ bufLen(spuData) = 0
    /\ bufLen(data) = SECTOR_SIZE
    /\ \E k \in DOMAIN added : added[k].length % 4 # 0

\* The pages generate wrote to the texture section, and the atlases they
\* were cut from: an atlas of n pages is 64 * n columns wide
pagesWritten == SelectSeq(vramData, LAMBDA r : r.src.t = "page")

atlasesOfPages(n) ==
    { a \in { pagesWritten[k].src.rec[1] : k \in DOMAIN pagesWritten } :
        Cardinality({ k \in DOMAIN pagesWritten :
                        pagesWritten[k].src.rec[1] = a }) = n }

\* The four atlas counts of the bundle header
atlasCounts == SubSeq(header[1].src.rec, 6, 9)

\* C11: after generate, the four counts written at offset 0x18 of the
\* header are the numbers of atlases of width 256, 192, 128 and 64, one
\* count per atlas.
C11_CountsPerAtlas ==
    phase = "generated" =>
        \A i \in 1..numTypes :
            atlasCounts[i] = Cardinality(atlasesOfPages(numTypes + 1 - i))

\* The images and palettes buildAtlases has yet to place
unplaced == Len(rem) + Len(pals)

\* C12: every iteration of the loop of buildAtlases either yields an atlas
\* and leaves fewer unplaced images plus palettes than it found, or raises
\* "packing failed", which it does exactly when it placed no image and no
\* palette; no more atlases are yielded than there are images and palettes.
C12_Progress ==
    [][ /\ pc' = "bucket" => unplaced' < unplaced
        /\ pc' = "failed" =>
              /\ error' = "packing failed"
              /\ pc = "collect"
              /\ palettes.packed = 0 /\ packedRes.packed = 0
        /\ (pc = "collect" /\ palettes.packed = 0 /\ packedRes.packed = 0)
              => pc' = "failed"
        /\ Len(atlases') <=
              Len(input) + Len(SelectSeq(imagesOf(input),
                                         LAMBDA image : image.bpp # 16))
      ]_vars

\* C13: through the add calls, whether they return or raise, the length
\* of the main data is a multiple of 4 and at most DATA_SIZE; a call whose
\* payload would take it past DATA_SIZE raises and leaves the main data
\* and the entries as they were; and the ranges [offset, offset + length)
\* of the entries lie inside the main data, one after the other in the
\* order the entries were added.
C13_MainData ==
    [][ lastOp'.op \in AddOps =>
          /\ bufLen(data') % 4 = 0
          /\ bufLen(data') <= DATA_SIZE
          /\ bufLen(data) + lastOp'.length > DATA_SIZE =>
                /\ lastOp'.error # ""
                /\ data' = data
                /\ entries' = entries
          /\ \A k \in DOMAIN entries' :
                /\ entries'[k].offset >= 0
                /\ entries'[k].offset + entries'[k].length <= bufLen(data')
                /\ k > 1 => entries'[k - 1].offset + entries'[k - 1].length
                               <= entries'[k].offset
      ]_vars

\* An add call is refused for the size of its payload, with an entry of
\* odd length before it in main data that is not empty
C13_Witness ==
    /\ lastOp.op \in AddOps
    /\ lastOp.error = "RuntimeError"
    /\ bufLen(data) + lastOp.length > DATA_SIZE
    /\ \E k \in DOMAIN entries : entries[k].length % 4 # 0

\* The offsets addSound works out for a sound, from the audio data so far
leftOffsetOf(sound) == bufLen(spuData)

rightOffsetOf(sound) ==
    bufLen(spuData) + (IF sound.channels = 2 THEN sound.length ELSE 0)

\* C14: the audio data never exceeds SPU_DATA_SIZE bytes; an addSound for
\* which leftOffset + length or rightOffset + length exceeds SPU_DATA_SIZE,
\* or whose name has the hash of an entry, raises and leaves the audio
\* data, the main data and the entries as they were.
C14_AudioBudget ==
    [][ /\ bufLen(spuData') <= SPU_DATA_SIZE
        /\ lastOp'.op = "addSound" =>
             \A q \in SoundRequests :
                ( /\ q.name = lastOp'.name
                  /\ \/ leftOffsetOf(q.sound) + q.sound.length
                            > SPU_DATA_SIZE
                     \/ rightOffsetOf(q.sound) + q.sound.length
                            > SPU_DATA_SIZE
                     \/ \E k \in DOMAIN entries :
                            entries[k].hash = hash32(q.name) )
                => ( /\ lastOp'.error # ""
                     /\ spuData' = spuData
                     /\ data' = data
                     /\ entries' = entries )
      ]_vars

\* A stereo sound is refused for its right channel alone: the left one
\* would have fitted after the audio data of an earlier sound
C14_Witness ==
    /\ lastOp.op = "addSound"
    /\ lastOp.error = "RuntimeError"
    /\ bufLen(spuData) > 0
    /\ \E q \in SoundRequests :
        /\ q.name = lastOp.name
        /\ q.sound.channels = 2
        /\ leftOffsetOf(q.sound) + q.sound.length <= SPU_DATA_SIZE
        /\ rightOffsetOf(q.sound) + q.sound.length > SPU_DATA_SIZE

\* A reader of packed little-endian unsigned fields: the byte at a
\* position (-1 past the end), the value of the field of a width at a
\* position, and the values of the fields of the given widths in a row
byteAt(bytes, pos) == IF pos + 1 \in DOMAIN bytes THEN bytes[pos + 1] ELSE -1

RECURSIVE fieldAt(_, _, _)
fieldAt(bytes, pos, width) ==
    IF width = 0 THEN 0
    ELSE IF byteAt(bytes, pos) < 0 THEN -1
    ELSE byteAt(bytes, pos) + 256 * fieldAt(bytes, pos + 1, width - 1)

RECURSIVE unpackFrom(_, _, _)
unpackFrom(bytes, pos, widths) ==
    IF Len(widths) = 0 THEN << >>
    ELSE << fieldAt(bytes, pos, Head(widths)) >>
            \o unpackFrom(bytes, pos + Head(widths), Tail(widths))

\* The frame records generate wrote to main data, as the runs of data
\* that hold them
frameRuns == { k \in DOMAIN data : data[k].src.t = "frame" }

\* The widths of the ten fields of a frame record
ClaimedFrameLayout == << 2, 2, 2, 2, 1, 1, 1, 1, 2, 4 >>

FrameLayout == << 2, 2, 1, 1, 1, 1, 1, 1, 2, 4 >>

\* The record of every frame is 16 bytes and reads, with x and y taken as
\* 16-bit fields, as the values of one of the fields of the textures
C15_FrameRecordAsClaimed ==
    phase = "generated" =>
        \A k \in frameRuns :
            /\ Len(data[k].src.rec) = TEXTURE_FRAME_STRUCT_size
            /\ \E i \in DOMAIN textureList :
                  unpackFrom(data[k].src.rec, 0, ClaimedFrameLayout)
                     = frameValues(textureList[i])

\* C15: every frame record written by _buildVRAM is 16 bytes, every byte
\* in 0..255, and holds in this order, little-endian, imagePage (uint16),
\* palettePage (uint16), x (uint8), y (uint8), marginX (uint8), marginY
\* (uint8), innerW (uint8), innerH (uint8), paletteXY (uint16) and flags
\* (uint32) of one of the fields of the textures.
C15_FrameRecord ==
    phase = "generated" =>
        \A k \in frameRuns :
            /\ Len(data[k].src.rec) = TEXTURE_FRAME_STRUCT_size
            /\ \A i \in DOMAIN data[k].src.rec :
                  data[k].src.rec[i] \in 0..255
            /\ \E i \in DOMAIN textureList :
                  unpackFrom(data[k].src.rec, 0, FrameLayout)
                     = frameValues(textureList[i])

\* Frame records were written for an image with a palette, away from
\* the origin of its page, and for an image with flag bits set
C15_Witness ==
    /\ phase = "generated"
    /\ \E k \in frameRuns :
        \E i \in DOMAIN textureList :
            /\ unpackFrom(data[k].src.rec, 0, FrameLayout)
                  = frameValues(textureList[i])
            /\ textureList[i].y > 0
            /\ getPaletteXY(textureList[i]) > 255
    /\ \E k \in frameRuns :
        \E i \in DOMAIN textureList :
            /\ unpackFrom(data[k].src.rec, 0, FrameLayout)
                  = frameValues(textureList[i])
            /\ getFlags(textureList[i]) > 0

\* The powers of two a table of the model can have as its size
PowersOfTwo == { powerOfTwoFrom(n, 1) : n \in 1..(2 * MaxAdds + 2) }

\* C16: whatever the number of entries, the table build leaves a table
\* whose number of buckets is a power of two, the smallest that is at
\* least the number of entries, and in which the buckets in use and the
\* chained entries are as many as the entries.
C16_TableSize ==
    lastOp.op = "generate" =>
        /\ lastOp.error # "ValueError"
        /\ Len(tableBuckets) \in PowersOfTwo
        /\ Len(tableBuckets) >= Len(entries)
        /\ \A p \in PowersOfTwo :
              p >= Len(entries) => Len(tableBuckets) <= p
        /\ Cardinality({ i \in DOMAIN tableBuckets :
                           tableBuckets[i] # None })
              + Len(chained) = Len(entries)

\* The lists of the scenario of the two 4 bpp images of 200x100 and of
\* 100x200 pixels, packed with the default options
TwoImagesPacked ==
    /\ input \in { << 10, 11 >>, << 11, 10 >> }
    /\ opts.discardStep = 1
    /\ pc \in { "done", "failed" }

\* The two images end in one atlas, and it is 128 columns wide
C17_OneAtlasOf128 ==
    TwoImagesPacked =>
        /\ pc = "done"
        /\ Len(atlases) = 1
        /\ atlases[1].width = 128
        /\ \A i \in DOMAIN images : images[i].page = 0

\* C17: one 4 bpp image of 200x100 pixels and one of 100x200 pixels, with
\* no padding and free to be flipped, end in exactly one atlas, which is
\* 64 columns of 16 bits wide (256 pixels of 4 bits), and both are placed
\* in it, within its columns and free rows.
C17_OneAtlasOf64 ==
    TwoImagesPacked =>
        /\ pc = "done"
        /\ Len(atlases) = 1
        /\ atlases[1].width = ATLAS_MIN_WIDTH
        /\ \A i \in DOMAIN images :
              /\ images[i].page = 0
              /\ footprint(images[i])[1] + footprint(images[i])[3]
                    <= ATLAS_MIN_WIDTH
              /\ footprint(images[i])[2] + footprint(images[i])[4]
                    <= atlases[1].freeHeight
        /\ ~overlaps(footprint(images[1]), footprint(images[2]))

\* The scenario has run, and one of the two images was flipped
C17_Witness ==
    /\ TwoImagesPacked
    /\ pc = "done"
    /\ \E i \in DOMAIN images : images[i].flip

\* C18: a single 8 bpp image of 128x128 pixels with 256 colours gets an
\* atlas 256 columns wide; its palette takes the whole of row 255, the
\* free height given to packImages is 255, and the image is placed at
\* (0, 0), not flipped.
C18_EightBitScenario ==
    (input = << 12 >> /\ pc \in { "done", "failed" }) =>
        /\ pc = "done"
        /\ Len(atlases) = 1
        /\ atlases[1].width = ATLAS_MAX_WIDTH
        /\ atlases[1].freeHeight = ATLAS_HEIGHT - 1
        /\ images[1].palettePage = 0
        /\ paletteStrip(images[1])
              = << 0, ATLAS_HEIGHT - 1, ATLAS_MAX_WIDTH, 1 >>
        /\ images[1].page = 0
        /\ << images[1].x, images[1].y, images[1].flip >>
              = << 0, 0, FALSE >>

\* The scenario has run with the default options, and the image was
\* blitted onto the atlas with its palette
C18_Witness ==
    /\ input = << 12 >>
    /\ opts.discardStep = 1
    /\ pc = "done"
    /\ atlases[1].blits = << 1 >>
    /\ atlases[1].paletteBlits = << 1 >>

\* The placement of an image and of its palette
placementOf(image) == << image.page, image.x, image.y, image.flip >>

palettePlacementOf(image) == << image.palettePage, image.px, image.py >>

\* The i-th image was blitted onto an atlas that buildAtlases has yielded
blitted(i) ==
    \E k \in DOMAIN atlases :
        \E n \in DOMAIN atlases[k].blits : atlases[k].blits[n] = i

\* The step is the end of buildTexturePages, which turns atlas indices
\* into texture page numbers
RemapsPages == pc = "loop" /\ pc' = "done"

\* Every record starts unplaced, and the placement of an image and the
\* placement of a palette, once assigned, are never assigned again
C19_PlacedOnce ==
    [][ /\ (pc = "loop" /\ index = 0) =>
              \A i \in DOMAIN images :
                 /\ placementOf(images[i]) = << None, None, None, FALSE >>
                 /\ palettePlacementOf(images[i]) = << None, None, None >>
        /\ \A i \in DOMAIN images :
              /\ images[i].page # None =>
                    placementOf(images'[i]) = placementOf(images[i])
              /\ images[i].palettePage # None =>
                    palettePlacementOf(images'[i])
                       = palettePlacementOf(images[i])
      ]_vars

\* C19: every record starts unplaced. The placement of a palette is
\* assigned once, by packPalettes when an atlas is begun, and x, y and
\* flip of an image never change once the atlas it was blitted onto is
\* yielded (before that, every attempt of packImages assigns them anew);
\* page and palettePage change once more, and only at the end of
\* buildTexturePages, which makes them texture page numbers.
C19_FixedOnceYielded ==
    [][ /\ (pc = "loop" /\ index = 0) =>
              \A i \in DOMAIN images :
                 /\ placementOf(images[i]) = << None, None, None, FALSE >>
                 /\ palettePlacementOf(images[i]) = << None, None, None >>
        /\ \A i \in DOMAIN images :
              /\ blitted(i) =>
                    /\ images[i].page # None
                    /\ Tail(placementOf(images'[i]))
                          = Tail(placementOf(images[i]))
                    /\ RemapsPages \/ images'[i].page = images[i].page
              /\ images[i].palettePage # None =>
                    /\ Tail(palettePlacementOf(images'[i]))
                          = Tail(palettePlacementOf(images[i]))
                    /\ RemapsPages
                          \/ images'[i].palettePage = images[i].palettePage
              /\ (images[i].palettePage = None
                     /\ images'[i].palettePage # None)
                    => (pc = "loop" /\ pc' = "order")
      ]_vars

\* buildTexturePages has returned, and an image that was blitted onto one
\* atlas while another image waited for the next has a page number that
\* is not the index of its atlas
C19_Witness ==
    /\ pc = "done"
    /\ Len(atlases) > 1
    /\ \E i \in DOMAIN images :
        /\ images[i].page # atlasOf(i) - 1
        /\ images[i].palettePage # None

\* The bytes of a buffer made of runs of given bytes and of zeros
RECURSIVE bytesOf(_)
bytesOf(buf) ==
    IF Len(buf) = 0 THEN << >>
    ELSE (IF Head(buf).src.t = "index"
          THEN SubSeq(Head(buf).src.rec, Head(buf).from + 1,
                      Head(buf).from + Head(buf).len)
          ELSE [ i \in 1 .. Head(buf).len |-> 0 ])
         \o bytesOf(Tail(buf))

\* The payload of an entry added to the bundle, as it is in the main data
payloadOf(e) == bytesOf(take(drop(data, e.offset), e.length))

\* The i-th entry of a serialized index without lengths and types
readShortEntry(bytes, i) ==
    LET p == INDEX_HEADER_STRUCT_size + INDEX_ENTRY_STRUCT_size * i
    IN  [ hash   |-> << readH(bytes, p + 2), readH(bytes, p) >>,
          offset |-> readH(bytes, p + 4),
          next   |-> readH(bytes, p + 6) ]

RECURSIVE shortChainFrom(_, _, _)
shortChainFrom(bytes, i, fuel) ==
    IF fuel = 0 THEN << >>
    ELSE << readShortEntry(bytes, i) >>
            \o (IF readShortEntry(bytes, i).next = 0 THEN << >>
                ELSE shortChainFrom(bytes, readShortEntry(bytes, i).next,
                                    fuel - 1))

\* The entries of the chain of the bucket of a key that have its hash
foundIn(bytes, key) ==
    SelectSeq(shortChainFrom(bytes,
                  hashMod(hash32(key), readH(bytes, 0)),
                  readH(bytes, 0) + readH(bytes, 2)),
              LAMBDA e : e.hash = hash32(key))

\* The call that added the string table of a name
requestOf(name) == CHOOSE q \in StringTableRequests : q.name = name

\* The bytes after an offset are those of a string and a zero after them
stringAt(bytes, offset, string) ==
    /\ offset + Len(string) + 1 <= Len(bytes)
    /\ SubSeq(bytes, offset + 1, offset + Len(string)) = string
    /\ bytes[offset + Len(string) + 1] = 0

\* The bytes that a set of values takes when each is stored once, with
\* its terminator, in a multiple of align bytes (if align is not zero)
RECURSIVE storedOnce(_, _, _)
storedOnce(values, encoding, align) ==
    IF values = { } THEN 0
    ELSE LET v == CHOOSE x \in values : TRUE
             n == Len(encode(v, encoding)) + 1
         IN  (IF align = 0 THEN n ELSE CeilDiv(n, align) * align)
                 + storedOnce(values \ { v }, encoding, align)

\* C20: while entries are being added, the payload of every string table
\* that addStringTable added is an index with one entry per key, followed
\* by a blob that holds each distinct value once; the lookup of each key
\* finds exactly one entry, whose offset, counted from the start of the
\* payload, is where the encoded value of the key starts, followed by a
\* zero byte; keys with equal values find the same offset.
C20_StringTableDedup ==
    \A k \in DOMAIN added :
        (phase = "adding" /\ added[k].entryType = STRING_TABLE) =>
            LET q     == requestOf(added[k].name)
                bytes == payloadOf(added[k])
                slots == readH(bytes, 0) + readH(bytes, 2)
                size  == INDEX_HEADER_STRUCT_size
                             + INDEX_ENTRY_STRUCT_size * slots
            IN  /\ \A i \in DOMAIN q.entries :
                    /\ Len(foundIn(bytes, q.entries[i][1])) = 1
                    /\ stringAt(bytes,
                                foundIn(bytes, q.entries[i][1])[1].offset,
                                encode(q.entries[i][2], q.encoding))
                    /\ foundIn(bytes, q.entries[i][1])[1].offset >= size
                /\ \A i, j \in DOMAIN q.entries :
                    q.entries[i][2] = q.entries[j][2] =>
                        foundIn(bytes, q.entries[i][1])[1].offset
                            = foundIn(bytes, q.entries[j][1])[1].offset
                /\ Cardinality({ i \in 0 .. slots - 1 :
                                   readShortEntry(bytes, i).hash # << 0, 0 >> })
                       = Len(q.entries)
                /\ Len(bytes)
                       = size + storedOnce(
                                    { q.entries[i][2] : i \in DOMAIN q.entries },
                                    q.encoding, q.align)

\* A string table with two keys of one value, a value that takes two
\* bytes and an empty value was added after a table stored with an
\* alignment
C20_Witness ==
    /\ lastOp.op = "addStringTable"
    /\ lastOp.error = ""
    /\ \E i, j \in DOMAIN requestOf(lastOp.name).entries :
        /\ i # j
        /\ requestOf(lastOp.name).entries[i][2]
               = requestOf(lastOp.name).entries[j][2]
        /\ Len(encode(requestOf(lastOp.name).entries[i][2],
                      requestOf(lastOp.name).encoding)) = 2
    /\ \E i \in DOMAIN requestOf(lastOp.name).entries :
        requestOf(lastOp.name).entries[i][2] = << >>
    /\ \E k \in DOMAIN added :
        /\ added[k].entryType = STRING_TABLE
        /\ requestOf(added[k].name).align = 4

\* The images an attempt placed into an empty space (those that took the
\* placement of an image of their hash are not among them), in the order
\* of the list
placedInto(st) ==
    SelectSeq([ i \in DOMAIN st.imgs |-> i ],
              LAMBDA i : \E h \in DOMAIN st.hashes : st.hashes[h] = i)

RECURSIVE sumOfAreas(_)
sumOfAreas(rects) ==
    IF Len(rects) = 0 THEN 0
    ELSE Head(rects)[3] * Head(rects)[4] + sumOfAreas(Tail(rects))

\* C21: after every image of the loop of _attemptPacking, the empty
\* spaces are pairwise disjoint, lie inside the atlas, share no cell with
\* the footprint of an image that was placed into an empty space, and
\* their areas and those of these footprints add up to atlasWidth *
\* atlasHeight, whatever the anchor and the split mode.
C21_FreeSpace ==
    LET spaces == attempt.st.spaces
        placed == [ k \in DOMAIN placedInto(attempt.st) |->
                      footprint(attempt.st.imgs[placedInto(attempt.st)[k]]) ]
    IN  /\ \A a, b \in DOMAIN spaces :
            a # b => ~overlaps(spaces[a], spaces[b])
        /\ \A a \in DOMAIN spaces :
            /\ spaces[a][1] >= 0 /\ spaces[a][2] >= 0
            /\ spaces[a][3] > 0 /\ spaces[a][4] > 0
            /\ spaces[a][1] + spaces[a][3] <= attempt.width
            /\ spaces[a][2] + spaces[a][4] <= attempt.height
        /\ \A a \in DOMAIN spaces, k \in DOMAIN placed :
            ~overlaps(spaces[a], placed[k])
        /\ sumOfAreas(spaces) + sumOfAreas(placed)
               = attempt.width * attempt.height

\* The image the last turn of the loop of _attemptPacking was about
lastImage == attempt.st.imgs[attempt.order[attempt.st.n]]

\* The last turn of the loop placed its image into an empty space
lastPlaced ==
    /\ attempt.st.n > 0
    /\ \E h \in DOMAIN attempt.st.hashes :
        attempt.st.hashes[h] = attempt.order[attempt.st.n]

\* The corners of a space an image of a size may be anchored at, in the
\* order top-left, top-right, bottom-left, bottom-right
cornersOf(space, size) ==
    << << space[1], space[2] >>,
       << space[1] + space[3] - size[1], space[2] >>,
       << space[1], space[2] + space[4] - size[2] >>,
       << space[1] + space[3] - size[1], space[2] + space[4] - size[2] >> >>

\* The corners of a space at which the image lies within a texture page
legalCorners(image, flip, space) ==
    { c \in 1..4 :
        canBePlaced(image, cornersOf(space, getPackedSize(image, flip))[c][1],
                    cornersOf(space, getPackedSize(image, flip))[c][2],
                    flip) }

\* The spaces that are large enough and have a corner to anchor at
eligible(image, flip, spaces) ==
    { j \in DOMAIN spaces :
        /\ getPackedSize(image, flip)[1] <= spaces[j][3]
        /\ getPackedSize(image, flip)[2] <= spaces[j][4]
        /\ legalCorners(image, flip, spaces[j]) # { } }

\* The corner the last image was anchored at in the space j it was put in
anchorOf(j) ==
    CHOOSE c \in legalCorners(lastImage, lastImage.flip, attempt.before[j]) :
        \A d \in legalCorners(lastImage, lastImage.flip, attempt.before[j]) :
            c <= d

\* C22: an image that _attemptPacking places was put, for the first of its
\* flip modes that has an eligible empty space (large enough, with a
\* corner at which the image lies within a texture page), into the
\* eligible space of smallest area left over, the first such in the list,
\* at the first legal corner in the order top-left, top-right,
\* bottom-left, bottom-right; an image that has a hash of its own and is
\* not placed has no eligible space for any flip mode.
C22_BestFit ==
    attempt.st.n > 0 =>
        IF lastPlaced
        THEN LET size  == getPackedSize(lastImage, lastImage.flip)
                 cands == eligible(lastImage, lastImage.flip, attempt.before)
             IN  /\ \E k \in DOMAIN lastImage.flipModes :
                     /\ lastImage.flipModes[k] = lastImage.flip
                     /\ \A m \in 1..(k - 1) :
                         eligible(lastImage, lastImage.flipModes[m],
                                  attempt.before) = { }
                 /\ \E j \in cands :
                     /\ \A k \in cands :
                         \/ attempt.before[j][3] * attempt.before[j][4]
                                < attempt.before[k][3] * attempt.before[k][4]
                         \/ /\ attempt.before[j][3] * attempt.before[j][4]
                                  = attempt.before[k][3]
                                        * attempt.before[k][4]
                            /\ j <= k
                     /\ << lastImage.x, lastImage.y >>
                            = cornersOf(attempt.before[j], size)[anchorOf(j)]
                     /\ j \notin DOMAIN attempt.st.spaces
                            \/ attempt.st.spaces[j] # attempt.before[j]
        ELSE lastImage.page = None =>
                 \A k \in DOMAIN lastImage.flipModes :
                     eligible(lastImage, lastImage.flipModes[k],
                              attempt.before) = { }

\* An image was placed into the first of two eligible spaces that leave
\* the same area, the smallest
C22_Witness ==
    /\ lastPlaced
    /\ \E j, k \in eligible(lastImage, lastImage.flip, attempt.before) :
        /\ j < k
        /\ attempt.before[j][3] * attempt.before[j][4]
               = attempt.before[k][3] * attempt.before[k][4]
        /\ \A m \in eligible(lastImage, lastImage.flip, attempt.before) :
            attempt.before[j][3] * attempt.before[j][4]
                <= attempt.before[m][3] * attempt.before[m][4]
        /\ << lastImage.x, lastImage.y >>
               = << attempt.before[j][1], attempt.before[j][2] >>

\* The last image was anchored at the corner c of its space, and at no
\* other corner of it
anchoredAt(c) ==
    /\ lastPlaced
    /\ \E j \in eligible(lastImage, lastImage.flip, attempt.before) :
        /\ anchorOf(j) = c
        /\ \A d \in 1..4 :
            (<< lastImage.x, lastImage.y >>
                = cornersOf(attempt.before[j],
                            getPackedSize(lastImage, lastImage.flip))[d])
            <=> d = c

\* With the alternative split mode, the third of three images placed into
\* empty spaces was anchored at the bottom-right corner of its space
C21_Witness ==
    /\ Len(placedInto(attempt.st)) = 3
    /\ attempt.altSplit
    /\ Len(attempt.st.spaces) >= 3
    /\ anchoredAt(4)

\* C23: packImages returns a pair ( area, count ) for every discardStep
\* from 1 on and every atlas size: buildTexturePages never ends with the
\* NameError of a local of packImages that was read before it was bound.
C23_PackImagesTotal == pc = "failed" => error # "NameError"

\* A sort order of packImages has just packed every image of the list,
\* with an area above the best so far: the break of the loop over
\* SORT_ORDERS is taken
packedAll ==
    /\ pc = "order"
    /\ loc'.packed = Len(rem)
    /\ loc'.area > loc.highestArea

\* C24: once a sort order has packed all the images, packImages tries no
\* other sort order, in either direction: the re-play of that order is the
\* next thing it does.
C24_NoFurtherOrders == [][ packedAll => pc' = "replay" ]_vars

\* C25: when packImages has returned, the area the final _attemptPacking
\* gave is the best area recorded during the search.
C25_ReplayIsBest ==
    (pc = "collect" /\ loc.highestArea > 0)
        => packedRes.area = loc.highestArea

\* The last turn of the loop of _attemptPacking gave its image the
\* placement of an image of its hash
lastInherited ==
    /\ attempt.st.n > 0
    /\ ~lastPlaced
    /\ lastImage.page # None

\* C26: an image that _attemptPacking treats as a duplicate has, under the
\* flip it inherits, the footprint of the image whose placement it takes;
\* images of different dimensions or colour depth are not duplicates.
C26_DuplicateSameFootprint ==
    lastInherited =>
        \E h \in DOMAIN attempt.st.hashes :
            /\ h = getHash(lastImage, attempt.seed)
            /\ footprint(lastImage)
                   = footprint(attempt.st.imgs[attempt.st.hashes[h]])
            /\ lastImage.bpp = attempt.st.imgs[attempt.st.hashes[h]].bpp

\* C27: a failing addTexture leaves the builder unchanged: the frame-record
\* back-references (textures) and the registered images (textureList) are
\* what they were before the call.
C27_FailedAddTextureLeavesNothing ==
    [][ (calls' = calls + 1 /\ lastOp'.op = "addTexture"
                            /\ lastOp'.error # "")
            => (textures' = textures /\ textureList' = textureList) ]_vars

\* C28: getPaletteHash is a pure query: whatever preserveLSB is, the
\* palette of every image of the pool, which blitPalette copies into the
\* atlas, is the palette the image was created with.
C28_PaletteHashPure ==
    \A i \in DOMAIN images :
        images[i].palette = imagesOf(input)[i].palette

\* C29: two images whose palettes were placed at different (column, row)
\* positions of the same atlas get different paletteXY values in their
\* frame records.
C29_PaletteXYIdentifiesStrip ==
    \A i, j \in DOMAIN images :
        ( /\ images[i].palettePage # None
          /\ images[i].palettePage = images[j].palettePage
          /\ << images[i].px, images[i].py >>
                 # << images[j].px, images[j].py >> )
            => getPaletteXY(images[i]) # getPaletteXY(images[j])

\* C30: an interlaced addTexture whose mip levels fit pushes two images
\* per mip level into the pool, the even field and then the odd field:
\* each holds every other row of its source, keeps the source's margin,
\* padding and allowed flip modes, and carries its field indicator (from
\* which getFlags sets the even-field or the odd-field bit).
C30_InterlacedFields ==
    [][ \A q \in TextureRequests :
          ( /\ q.interlaced
            /\ calls' = calls + 1
            /\ lastOp'.op = "addTexture"
            /\ lastOp'.name = q.name
            /\ \A k \in DOMAIN flatten(q.images) :
                   /\ flatten(q.images)[k].innerWidth <= 255
                   /\ flatten(q.images)[k].innerHeight <= 255 )
            => /\ Len(textureList')
                      = Len(textureList) + 2 * Len(flatten(q.images))
               /\ \A k \in DOMAIN flatten(q.images) : \A f \in { 0, 1 } :
                      LET source == flatten(q.images)[k]
                          pushed == textureList'[Len(textureList)
                                                     + 2 * (k - 1) + f + 1]
                      IN  /\ pushed.field = f
                          /\ pushed.innerWidth = source.innerWidth
                          /\ pushed.innerHeight
                                 = (source.innerHeight + 1 - f) \div 2
                          /\ pushed.margin = source.margin
                          /\ pushed.padding = source.padding
                          /\ pushed.flipModes = source.flipModes
                          /\ getFlags(pushed) % 16 \div 4 = f + 1 ]_vars

====
